---- MODULE Spec2Model ----
(***************************************************************************)
(* Model of gymnarium_visualisers_base (src/src/lib.rs): the 2D affine     *)
(* transformation algebra (Transformation2D, Transformations2D, the 3x3    *)
(* matrix helpers), the Geometry2D builder operations and the recursive    *)
(* bounding box queries.                                                   *)
(*                                                                         *)
(* f64 values are modelled exactly: a number is a pair <<n, d>> standing   *)
(* for n/d in lowest terms with d > 0; the non-finite values an f64        *)
(* division can produce are <<1, 0>> (+inf), <<-1, 0>> (-inf) and <<0, 0>> *)
(* (NaN).  Rounding is not modelled.  Angles are counted in eighths of a   *)
(* turn, the angles at which cos, sin and tan are rational.               *)
(***************************************************************************)
EXTENDS Integers, Sequences, FiniteSets, TLC

VARIABLES
    geometry,         \* the Geometry2D value the caller currently holds
    initial,          \* the geometry as it came out of its constructor
    appended,         \* every Transformation2D appended to it since, in order
    call,             \* the last builder call made on it, with its arguments
    previous,         \* the geometry that call consumed
    pipeline,         \* a Transformations2D value the caller holds
    original,         \* the Transformations2D that the last reverse() consumed
    probe,            \* a Position2D the caller holds
    image,            \* what the last Position2D::transform returned
    calls,            \* number of calls made so far
    outcome,          \* the last free function or method evaluated: arguments and result
    heap,             \* the Vec buffers of the pipelines, and who owns which
    agent             \* the InputAgent the caller holds

vars == <<geometry, initial, appended, call, previous, pipeline, original, probe, image, calls,
          outcome, heap, agent>>

(***************************************************************************)
(* Bounds of the model.                                                    *)
(***************************************************************************)
MaxCalls == 2
MaxPipelineCalls == 4

\* no geometry held, and a heap without buffers
NoOwner == [tree |-> <<>>, cells |-> <<>>]

EmptyHeap == [storage |-> <<>>, kept |-> NoOwner, held |-> NoOwner]

\* InputAgent::new on a provider and a mapper nothing has happened to yet
InputAgent_new(input_provider, to_action_mapper) ==
    [input_provider |-> input_provider, to_action_mapper |-> to_action_mapper]

NoAgent ==
    InputAgent_new([buffer |-> <<>>, arrived |-> 0, invoked |-> <<>>], [received |-> <<>>])

(***************************************************************************)
(* f64 arithmetic.                                                         *)
(***************************************************************************)
Abs(n) == IF n < 0 THEN -n ELSE n

Sgn(n) == IF n < 0 THEN -1 ELSE IF n > 0 THEN 1 ELSE 0

RECURSIVE Gcd(_, _)
Gcd(a, b) == IF b = 0 THEN a ELSE Gcd(b, a % b)

\* n/d as an f64: lowest terms, positive denominator; x/0 is +-inf, 0/0 is NaN
Rat(n, d) ==
    IF d = 0 THEN <<Sgn(n), 0>>
    ELSE IF d = 1 THEN <<n, 1>>
    ELSE LET g == Gcd(Abs(n), Abs(d))
             s == IF d < 0 THEN -1 ELSE 1
         IN  <<(s * n) \div g, (s * d) \div g>>

F(n) == <<n, 1>>

IsNaN(a) == a = <<0, 0>>

IsFinite(a) == a[2] # 0

FAdd(a, b) ==
    IF IsNaN(a) \/ IsNaN(b) THEN <<0, 0>>
    ELSE IF a[2] = 1 /\ b[2] = 1 THEN <<a[1] + b[1], 1>>
    ELSE IF a[2] = 0 /\ b[2] = 0
         THEN (IF a[1] = b[1] THEN a ELSE <<0, 0>>)
    ELSE Rat(a[1] * b[2] + b[1] * a[2], a[2] * b[2])

FNeg(a) == IF IsNaN(a) THEN a ELSE <<-a[1], a[2]>>

FSub(a, b) == FAdd(a, FNeg(b))

FMul(a, b) ==
    IF IsNaN(a) \/ IsNaN(b) THEN <<0, 0>>
    ELSE IF a[2] = 1 /\ b[2] = 1 THEN <<a[1] * b[1], 1>>
    ELSE Rat(a[1] * b[1], a[2] * b[2])

FDiv(a, b) ==
    IF IsNaN(a) \/ IsNaN(b) THEN <<0, 0>>
    ELSE IF a[2] = 0 /\ b[2] = 0 THEN <<0, 0>>
    ELSE IF b[2] = 0 THEN <<0, 1>>
    ELSE IF a[2] = 0 THEN <<a[1] * (IF b[1] < 0 THEN -1 ELSE 1), 0>>
    ELSE Rat(a[1] * b[2], a[2] * b[1])

\* a < b as f64 comparison (false when either is NaN)
FLess(a, b) ==
    /\ ~IsNaN(a)
    /\ ~IsNaN(b)
    /\ IF a[2] = 0 /\ b[2] = 0 THEN a[1] < b[1]
       ELSE IF a[2] = 0 THEN a[1] < 0
       ELSE IF b[2] = 0 THEN b[1] > 0
       ELSE a[1] * b[2] < b[1] * a[2]

\* f64::min and f64::max: the other operand when one is NaN
FMin(a, b) == IF IsNaN(a) THEN b ELSE IF IsNaN(b) THEN a ELSE IF FLess(b, a) THEN b ELSE a

FMax(a, b) == IF IsNaN(a) THEN b ELSE IF IsNaN(b) THEN a ELSE IF FLess(a, b) THEN b ELSE a

\* std::f64::MAX, and std::f64::MIN == -std::f64::MAX: larger in magnitude
\* than every coordinate the model builds
F64_MAX == 1000000

\* cos, sin and tan at an angle of k eighths of a turn
Cos(k) == CASE k % 8 = 0 -> F(1) [] k % 8 = 2 -> F(0) [] k % 8 = 4 -> F(-1) [] k % 8 = 6 -> F(0)

Sin(k) == CASE k % 8 = 0 -> F(0) [] k % 8 = 2 -> F(1) [] k % 8 = 4 -> F(0) [] k % 8 = 6 -> F(-1)

Tan(k) == CASE k % 4 = 0 -> F(0) [] k % 4 = 1 -> F(1) [] k % 4 = 3 -> F(-1)

(***************************************************************************)
(* Position2D, Vector2D, Size2D.                                           *)
(***************************************************************************)
Position2D_with(x, y) == [x |-> x, y |-> y]

Position2D_zero == [x |-> F(0), y |-> F(0)]

Vector2D_with(x, y) == [x |-> x, y |-> y]

Size2D_with(width, height) == [width |-> width, height |-> height]

\* Position2D::vector_to
vector_to(self, other) == Vector2D_with(FSub(other.x, self.x), FSub(other.y, self.y))

\* impl Add<Vector2D> for Position2D
Position2D_add(self, rhs) == [x |-> FAdd(self.x, rhs.x), y |-> FAdd(self.y, rhs.y)]

\* impl Sub<Vector2D> for Position2D
Position2D_sub(self, rhs) == [x |-> FSub(self.x, rhs.x), y |-> FSub(self.y, rhs.y)]

\* impl Mul<f64> for Vector2D
Vector2D_mul(self, rhs) == [x |-> FMul(self.x, rhs), y |-> FMul(self.y, rhs)]

(***************************************************************************)
(* Matrix helpers.  A matrix is a sequence of three rows of three numbers. *)
(***************************************************************************)
\* the product as a slip would write it: rows of matrix_a by columns of matrix_b
multiply_matrices_3x3_rows_by_columns(matrix_a, matrix_b) ==
    LET E(i, j) == FAdd(FAdd(FMul(matrix_a[i][1], matrix_b[1][j]),
                             FMul(matrix_a[i][2], matrix_b[2][j])),
                        FMul(matrix_a[i][3], matrix_b[3][j]))
    IN  << <<E(1, 1), E(1, 2), E(1, 3)>>,
           <<E(2, 1), E(2, 2), E(2, 3)>>,
           <<E(3, 1), E(3, 2), E(3, 3)>> >>

\* the product as a slip would write it: matrix_b read by its columns
multiply_matrices_3x3_second_by_columns(matrix_a, matrix_b) ==
    LET E(i, j) == FAdd(FAdd(FMul(matrix_a[1][j], matrix_b[1][i]),
                             FMul(matrix_a[2][j], matrix_b[2][i])),
                        FMul(matrix_a[3][j], matrix_b[3][i]))
    IN  << <<E(1, 1), E(1, 2), E(1, 3)>>,
           <<E(2, 1), E(2, 2), E(2, 3)>>,
           <<E(3, 1), E(3, 2), E(3, 3)>> >>

\* the product as a slip would write it: the two indices of the result exchanged
multiply_matrices_3x3_result_transposed(matrix_a, matrix_b) ==
    LET E(i, j) == FAdd(FAdd(FMul(matrix_a[1][i], matrix_b[j][1]),
                             FMul(matrix_a[2][i], matrix_b[j][2])),
                        FMul(matrix_a[3][i], matrix_b[j][3]))
    IN  << <<E(1, 1), E(1, 2), E(1, 3)>>,
           <<E(2, 1), E(2, 2), E(2, 3)>>,
           <<E(3, 1), E(3, 2), E(3, 3)>> >>

\* result[i][j] = a[0][j]*b[i][0] + a[1][j]*b[i][1] + a[2][j]*b[i][2]
multiply_matrices_3x3(matrix_a, matrix_b) ==
    LET E(i, j) == FAdd(FAdd(FMul(matrix_a[1][j], matrix_b[i][1]),
                             FMul(matrix_a[2][j], matrix_b[i][2])),
                        FMul(matrix_a[3][j], matrix_b[i][3]))
    IN  << <<E(1, 1), E(1, 2), E(1, 3)>>,
           <<E(2, 1), E(2, 2), E(2, 3)>>,
           <<E(3, 1), E(3, 2), E(3, 3)>> >>

\* the product as a slip would write it: the vector as a row, by the columns
multiply_vector_1x3_and_matrix_3x3_by_columns(vector, matrix) ==
    LET E(i) == FAdd(FAdd(FMul(vector[1], matrix[1][i]), FMul(vector[2], matrix[2][i])),
                     FMul(vector[3], matrix[3][i]))
    IN  <<E(1), E(2), E(3)>>

multiply_vector_1x3_and_matrix_3x3(vector, matrix) ==
    LET E(i) == FAdd(FAdd(FMul(vector[1], matrix[i][1]), FMul(vector[2], matrix[i][2])),
                     FMul(vector[3], matrix[i][3]))
    IN  <<E(1), E(2), E(3)>>

determinant_of_matrix_3x3(m) ==
    FSub(FSub(FSub(FAdd(FAdd(FMul(FMul(m[1][1], m[2][2]), m[3][3]),
                             FMul(FMul(m[2][1], m[3][2]), m[1][3])),
                        FMul(FMul(m[3][1], m[1][2]), m[2][3])),
                   FMul(FMul(m[3][1], m[2][2]), m[3][3])),
              FMul(FMul(m[2][1], m[1][2]), m[3][3])),
         FMul(FMul(m[1][1], m[3][2]), m[2][3]))

\* the inverse as a slip would write it: the adjugate, never divided by the
\* determinant
inverse_of_matrix_3x3_not_divided(m) ==
    LET Cof(a, b, c, d) == FSub(FMul(m[a[1]][a[2]], m[b[1]][b[2]]),
                                FMul(m[c[1]][c[2]], m[d[1]][d[2]]))
    IN  << << Cof(<<2,2>>, <<3,3>>, <<2,3>>, <<3,2>>),
              Cof(<<1,3>>, <<3,2>>, <<1,2>>, <<3,3>>),
              Cof(<<1,2>>, <<2,3>>, <<1,3>>, <<2,2>>) >>,
           << Cof(<<2,3>>, <<3,1>>, <<2,1>>, <<3,3>>),
              Cof(<<1,1>>, <<3,3>>, <<1,3>>, <<3,1>>),
              Cof(<<1,3>>, <<2,1>>, <<1,1>>, <<2,3>>) >>,
           << Cof(<<2,1>>, <<3,2>>, <<2,2>>, <<3,1>>),
              Cof(<<1,2>>, <<3,1>>, <<1,1>>, <<3,2>>),
              Cof(<<1,1>>, <<2,2>>, <<1,2>>, <<2,1>>) >> >>

\* the inverse as a slip would write it: the cofactors divided by the determinant,
\* without the transposition that makes them the adjugate
inverse_of_matrix_3x3_cofactors_not_transposed(m) ==
    LET determinant == determinant_of_matrix_3x3(m)
        Cof(a, b, c, d) == FDiv(FSub(FMul(m[a[1]][a[2]], m[b[1]][b[2]]),
                                     FMul(m[c[1]][c[2]], m[d[1]][d[2]])), determinant)
    IN  << << Cof(<<2,2>>, <<3,3>>, <<2,3>>, <<3,2>>),
              Cof(<<2,3>>, <<3,1>>, <<2,1>>, <<3,3>>),
              Cof(<<2,1>>, <<3,2>>, <<2,2>>, <<3,1>>) >>,
           << Cof(<<1,3>>, <<3,2>>, <<1,2>>, <<3,3>>),
              Cof(<<1,1>>, <<3,3>>, <<1,3>>, <<3,1>>),
              Cof(<<1,2>>, <<3,1>>, <<1,1>>, <<3,2>>) >>,
           << Cof(<<1,2>>, <<2,3>>, <<1,3>>, <<2,2>>),
              Cof(<<1,3>>, <<2,1>>, <<1,1>>, <<2,3>>),
              Cof(<<1,1>>, <<2,2>>, <<1,2>>, <<2,1>>) >> >>

\* the inverse as a guard against division by zero would write it: the identity
\* matrix where the determinant is zero
inverse_of_matrix_3x3_guarded(m) ==
    LET determinant == determinant_of_matrix_3x3(m)
        adjugate == inverse_of_matrix_3x3_not_divided(m)
    IN  IF determinant = F(0)
        THEN << <<F(1), F(0), F(0)>>, <<F(0), F(1), F(0)>>, <<F(0), F(0), F(1)>> >>
        ELSE << << FDiv(adjugate[1][1], determinant), FDiv(adjugate[1][2], determinant),
                   FDiv(adjugate[1][3], determinant) >>,
                << FDiv(adjugate[2][1], determinant), FDiv(adjugate[2][2], determinant),
                   FDiv(adjugate[2][3], determinant) >>,
                << FDiv(adjugate[3][1], determinant), FDiv(adjugate[3][2], determinant),
                   FDiv(adjugate[3][3], determinant) >> >>

inverse_of_matrix_3x3(m) ==
    LET determinant == determinant_of_matrix_3x3(m)
        Cof(a, b, c, d) == FDiv(FSub(FMul(m[a[1]][a[2]], m[b[1]][b[2]]),
                                     FMul(m[c[1]][c[2]], m[d[1]][d[2]])), determinant)
    IN  << << Cof(<<2,2>>, <<3,3>>, <<2,3>>, <<3,2>>),
              Cof(<<1,3>>, <<3,2>>, <<1,2>>, <<3,3>>),
              Cof(<<1,2>>, <<2,3>>, <<1,3>>, <<2,2>>) >>,
           << Cof(<<2,3>>, <<3,1>>, <<2,1>>, <<3,3>>),
              Cof(<<1,1>>, <<3,3>>, <<1,3>>, <<3,1>>),
              Cof(<<1,3>>, <<2,1>>, <<1,1>>, <<2,3>>) >>,
           << Cof(<<2,1>>, <<3,2>>, <<2,2>>, <<3,1>>),
              Cof(<<1,2>>, <<3,1>>, <<1,1>>, <<3,2>>),
              Cof(<<1,1>>, <<2,2>>, <<1,2>>, <<2,1>>) >> >>

IdentityMatrix == << <<F(1), F(0), F(0)>>, <<F(0), F(1), F(0)>>, <<F(0), F(0), F(1)>> >>

(***************************************************************************)
(* Transformation2D.  A value is a record whose field kind is the variant. *)
(* A name is a sequence; format!("Reverse-{:?}", x) is <<"Reverse-", x>>.  *)
(***************************************************************************)
translation(direction) == [kind |-> "Translation", direction |-> direction]

identity == [kind |-> "Identity"]

rotation(angle) == [kind |-> "Rotation", angle |-> angle]

scale(x_factor, y_factor) == [kind |-> "Scale", x_factor |-> x_factor, y_factor |-> y_factor]

isotropic_scale(factor) == [kind |-> "IsotropicScale", factor |-> factor]

reflection_x == [kind |-> "ReflectionX"]

reflection_y == [kind |-> "ReflectionY"]

shear_x(amount) == [kind |-> "ShearX", amount |-> amount]

shear_y(amount) == [kind |-> "ShearY", amount |-> amount]

shear_x_degree(degree) == [kind |-> "ShearXDegree", degree |-> degree]

shear_y_degree(degree) == [kind |-> "ShearYDegree", degree |-> degree]

composition(name, transformations) ==
    [kind |-> "Composition", name |-> name, transformations |-> transformations]

custom(name, transformation) ==
    [kind |-> "Custom", name |-> name, transformation |-> transformation]

\* a slip: the two translations exchanged, to the position first and back from it
\* last
rotation_around_position_translations_exchanged(rotation_position, angle) ==
    [kind |-> "Composition",
     name |-> <<"RotationAroundPosition">>,
     transformations |->
        << [kind |-> "Translation",
            direction |-> vector_to(Position2D_zero, rotation_position)],
           [kind |-> "Rotation", angle |-> angle],
           [kind |-> "Translation",
            direction |-> vector_to(rotation_position, Position2D_zero)] >>]

rotation_around_position(rotation_position, angle) ==
    composition(<<"RotationAroundPosition">>,
        << translation(vector_to(rotation_position, Position2D_zero)),
           rotation(angle),
           translation(vector_to(Position2D_zero, rotation_position)) >>)

RECURSIVE transformation_matrix(_)

\* .map(transformation_matrix).fold_first(multiply_matrices_3x3) from the i-th
\* transformation on: the accumulator is the first argument of every call
RECURSIVE FoldFirstMultiply(_, _, _)
FoldFirstMultiply(acc, transformations, i) ==
    IF i > Len(transformations) THEN acc
    ELSE FoldFirstMultiply(
            multiply_matrices_3x3(acc, transformation_matrix(transformations[i])),
            transformations, i + 1)

transformation_matrix(self) ==
    CASE self.kind = "Translation" ->
            << <<F(1), F(0), self.direction.x>>,
               <<F(0), F(1), self.direction.y>>,
               <<F(0), F(0), F(1)>> >>
      [] self.kind = "Identity" -> IdentityMatrix
      [] self.kind = "Rotation" ->
            << <<Cos(self.angle), FNeg(Sin(self.angle)), F(0)>>,
               <<Sin(self.angle), Cos(self.angle), F(0)>>,
               <<F(0), F(0), F(1)>> >>
      [] self.kind = "Scale" ->
            << <<self.x_factor, F(0), F(0)>>,
               <<F(0), self.y_factor, F(0)>>,
               <<F(0), F(0), F(1)>> >>
      [] self.kind = "IsotropicScale" ->
            << <<self.factor, F(0), F(0)>>,
               <<F(0), self.factor, F(0)>>,
               <<F(0), F(0), F(1)>> >>
      [] self.kind = "ReflectionX" ->
            << <<F(-1), F(0), F(0)>>, <<F(0), F(1), F(0)>>, <<F(0), F(0), F(1)>> >>
      [] self.kind = "ReflectionY" ->
            << <<F(1), F(0), F(0)>>, <<F(0), F(-1), F(0)>>, <<F(0), F(0), F(1)>> >>
      [] self.kind = "ShearX" ->
            << <<F(1), self.amount, F(0)>>, <<F(0), F(1), F(0)>>, <<F(0), F(0), F(1)>> >>
      [] self.kind = "ShearY" ->
            << <<F(1), F(0), F(0)>>, <<self.amount, F(1), F(0)>>, <<F(0), F(0), F(1)>> >>
      [] self.kind = "ShearXDegree" ->
            << <<F(1), Tan(self.degree), F(0)>>, <<F(0), F(1), F(0)>>, <<F(0), F(0), F(1)>> >>
      [] self.kind = "ShearYDegree" ->
            << <<F(1), F(0), F(0)>>, <<Tan(self.degree), F(1), F(0)>>, <<F(0), F(0), F(1)>> >>
      [] self.kind = "Composition" ->
            IF self.transformations = <<>> THEN transformation_matrix(identity)
            ELSE FoldFirstMultiply(transformation_matrix(self.transformations[1]),
                                   self.transformations, 2)
      [] self.kind = "Custom" -> self.transformation

\* Transformation2D::reverse, Composition arm: into_iter().map(reverse), the
\* children keep their positions
RECURSIVE Transformation2D_reverse(_)
Transformation2D_reverse(self) ==
    IF self.kind = "Composition"
    THEN [kind |-> "Composition",
          name |-> <<"Reverse-", self.name>>,
          transformations |->
              [i \in 1..Len(self.transformations) |->
                  Transformation2D_reverse(self.transformations[i])]]
    ELSE [kind |-> "Custom",
          name |-> <<"Reverse-", self>>,
          transformation |-> inverse_of_matrix_3x3(transformation_matrix(self))]

(***************************************************************************)
(* Transformations2D: the pipeline, a sequence of Transformation2D.        *)
(***************************************************************************)
Transformations2D_default == <<>>

\* the fold as a slip would write it: over the list from its last transformation
\* to its first
Transformations2D_transformation_matrix_last_first(self) ==
    LET backwards == [i \in 1..Len(self) |-> self[Len(self) + 1 - i]]
    IN  IF self = <<>> THEN transformation_matrix(identity)
        ELSE FoldFirstMultiply(transformation_matrix(backwards[1]), backwards, 2)

\* the fold as a slip would write it: started at the identity from the second
\* transformation on, the first one never multiplied in
Transformations2D_transformation_matrix_skips_first(self) ==
    FoldFirstMultiply(transformation_matrix(identity), self, 2)

Transformations2D_transformation_matrix(self) ==
    IF self = <<>> THEN transformation_matrix(identity)
    ELSE FoldFirstMultiply(transformation_matrix(self[1]), self, 2)

\* Vec::reverse
VecReverse(v) == [i \in 1..Len(v) |-> v[Len(v) + 1 - i]]

Transformations2D_reverse(self) ==
    LET reversed == VecReverse(self)
    IN  [i \in 1..Len(reversed) |-> Transformation2D_reverse(reversed[i])]

\* Position2D::transform
Position2D_transform(self, transformations) ==
    CHOOSE position \in
        { [x |-> transformed[1], y |-> transformed[2]] :
            transformed \in
                { multiply_vector_1x3_and_matrix_3x3(<<self.x, self.y, F(1)>>, matrix) :
                    matrix \in {Transformations2D_transformation_matrix(transformations)} } } :
        TRUE

(***************************************************************************)
(* Color, LineShape, CornerShape.                                          *)
(***************************************************************************)
Color_with(red, green, blue, alpha) == [red |-> red, green |-> green, blue |-> blue, alpha |-> alpha]

Color_black == Color_with(0, 0, 0, 255)

Color_transparent == Color_with(0, 0, 0, 0)

Color_red == Color_with(255, 0, 0, 255)

Color_blue == Color_with(0, 0, 255, 255)

LineShape_Square == "Square"

LineShape_Round == "Round"

CornerShape_Square == [kind |-> "Square"]

CornerShape_Bevel(amount) == [kind |-> "Bevel", amount |-> amount]

(***************************************************************************)
(* Geometry2D.  A value is a record whose field kind is the variant; a     *)
(* Group holds its children in the field geometries.                       *)
(***************************************************************************)
point(position) ==
    [kind |-> "Point", position |-> position, color |-> Color_black,
     transformations |-> Transformations2D_default]

line(start, end) ==
    [kind |-> "Line", points |-> <<start, end>>, line_color |-> Color_black,
     line_width |-> F(1), line_shape |-> LineShape_Square,
     transformations |-> Transformations2D_default]

polyline(points) ==
    [kind |-> "Polyline", points |-> points, line_color |-> Color_black,
     line_width |-> F(1), line_shape |-> LineShape_Square,
     transformations |-> Transformations2D_default]

triangle(position_a, position_b, position_c) ==
    [kind |-> "Triangle", points |-> <<position_a, position_b, position_c>>,
     fill_color |-> Color_black, border_color |-> Color_transparent,
     border_width |-> F(0), transformations |-> Transformations2D_default]

square(center_position, edge_length) ==
    [kind |-> "Square", center_position |-> center_position, edge_length |-> edge_length,
     fill_color |-> Color_black, border_color |-> Color_transparent,
     border_width |-> F(0), corner_shape |-> CornerShape_Square,
     transformations |-> Transformations2D_default]

rectangle(center_position, size) ==
    [kind |-> "Rectangle", center_position |-> center_position, size |-> size,
     fill_color |-> Color_black, border_color |-> Color_transparent,
     border_width |-> F(0), corner_shape |-> CornerShape_Square,
     transformations |-> Transformations2D_default]

polygon(points) ==
    [kind |-> "Polygon", points |-> points,
     fill_color |-> Color_black, border_color |-> Color_transparent,
     border_width |-> F(0), transformations |-> Transformations2D_default]

circle(center_position, radius) ==
    [kind |-> "Circle", center_position |-> center_position, radius |-> radius,
     fill_color |-> Color_black, border_color |-> Color_transparent,
     border_width |-> F(0), transformations |-> Transformations2D_default]

ellipse(center_position, size) ==
    [kind |-> "Ellipse", center_position |-> center_position, size |-> size,
     fill_color |-> Color_black, border_color |-> Color_transparent,
     border_width |-> F(0), transformations |-> Transformations2D_default]

group(geometries) == [kind |-> "Group", geometries |-> geometries]

(***************************************************************************)
(* Bounding box.  An Option<Position2D> is <<>> (None) or <<p>> (Some(p)). *)
(* The closure merge_two_positions is named by which: "minimum" is the     *)
(* closure of minimum_position_in_transformed_bounding_box, "maximum" that *)
(* of maximum_position_in_transformed_bounding_box.                        *)
(***************************************************************************)
merge_two_positions(which, a, b) ==
    IF which = "minimum"
    THEN Position2D_with(FMin(a.x, b.x), FMin(a.y, b.y))
    ELSE Position2D_with(FMax(a.x, b.x), FMax(a.y, b.y))

RECURSIVE FoldMerge(_, _, _)
FoldMerge(which, acc, positions) ==
    IF positions = <<>> THEN acc
    ELSE FoldMerge(which, merge_two_positions(which, acc, Head(positions)), Tail(positions))

\* Iterator::fold_first(merge_two_positions): None for an empty iterator
FoldFirstMerge(which, positions) ==
    IF positions = <<>> THEN <<>>
    ELSE <<FoldMerge(which, Head(positions), Tail(positions))>>

\* a slip: the half width taken for the half height too
BoxCorners_half_width_twice(center_position, half_width, half_height) ==
    << Position2D_sub(center_position, Vector2D_with(half_width, half_width)),
       Position2D_sub(center_position, Vector2D_with(FNeg(half_width), half_width)),
       Position2D_sub(center_position, Vector2D_with(FNeg(half_width), FNeg(half_width))),
       Position2D_sub(center_position, Vector2D_with(half_width, FNeg(half_width))) >>

\* the four corners listed in the Square, Rectangle, Circle and Ellipse arms
BoxCorners(center_position, half_width, half_height) ==
    << Position2D_sub(center_position, Vector2D_with(half_width, half_height)),
       Position2D_sub(center_position, Vector2D_with(FNeg(half_width), half_height)),
       Position2D_sub(center_position, Vector2D_with(FNeg(half_width), FNeg(half_height))),
       Position2D_sub(center_position, Vector2D_with(half_width, FNeg(half_height))) >>

TransformAll(positions, transformations) ==
    [i \in 1..Len(positions) |-> Position2D_transform(positions[i], transformations)]

\* a slip: take_while(is_some) for filter(is_some)
RECURSIVE FilterSome_until_none(_)
FilterSome_until_none(options) ==
    IF options = <<>> \/ Head(options) = <<>> THEN <<>>
    ELSE Head(options) \o FilterSome_until_none(Tail(options))

\* .filter(is_some).map(unwrap) over a sequence of options
RECURSIVE FilterSome(_)
FilterSome(options) ==
    IF options = <<>> THEN <<>>
    ELSE Head(options) \o FilterSome(Tail(options))

\* the positions a leaf's arm maps through a.transform(transformations), in the
\* arm's order
TransformedPositions(self) ==
    CASE self.kind = "Point" -> <<self.position>>
      [] self.kind = "Line" -> <<self.points[1], self.points[2]>>
      [] self.kind = "Polyline" -> self.points
      [] self.kind = "Triangle" -> <<self.points[1], self.points[2], self.points[3]>>
      [] self.kind = "Square" ->
            BoxCorners(self.center_position,
                       FDiv(self.edge_length, F(2)), FDiv(self.edge_length, F(2)))
      [] self.kind = "Rectangle" ->
            BoxCorners(self.center_position,
                       FDiv(self.size.width, F(2)), FDiv(self.size.height, F(2)))
      [] self.kind = "Polygon" -> self.points
      [] self.kind = "Circle" ->
            BoxCorners(self.center_position, self.radius, self.radius)
      [] self.kind = "Ellipse" ->
            BoxCorners(self.center_position,
                       FDiv(self.size.width, F(2)), FDiv(self.size.height, F(2)))

\* Polyline, Polygon and the four box arms are .iter().map(|a| a.transform(
\* transformations)).fold_first(merge_two_positions); the Point, Line and Triangle
\* arms write the same left-to-right merge out by hand: Some(transform(p)),
\* Some(merge(t(p0), t(p1))), Some(merge(merge(t(p0), t(p1)), t(p2)))
RECURSIVE conditional_position_in_transformed_bounding_box(_, _)
conditional_position_in_transformed_bounding_box(self, which) ==
    IF self.kind = "Group"
    THEN FoldFirstMerge(which, FilterSome(
            [i \in 1..Len(self.geometries) |->
                conditional_position_in_transformed_bounding_box(
                    self.geometries[i], which)]))
    ELSE FoldFirstMerge(which,
            TransformAll(TransformedPositions(self), self.transformations))

\* a slip: the sentinel of the maximum copied into the minimum
minimum_position_with_sentinel_of_maximum(self) ==
    LET found == conditional_position_in_transformed_bounding_box(self, "minimum")
    IN  IF found = <<>> THEN Position2D_with(F(-F64_MAX), F(-F64_MAX)) ELSE found[1]

minimum_position_in_transformed_bounding_box(self) ==
    LET found == conditional_position_in_transformed_bounding_box(self, "minimum")
    IN  IF found = <<>> THEN Position2D_with(F(F64_MAX), F(F64_MAX)) ELSE found[1]

maximum_position_in_transformed_bounding_box(self) ==
    LET found == conditional_position_in_transformed_bounding_box(self, "maximum")
    IN  IF found = <<>> THEN Position2D_with(F(-F64_MAX), F(-F64_MAX)) ELSE found[1]

\* let max_bb_pos = ...; let min_bb_pos = ...; each is computed once
center_position_of_bounding_box(self) ==
    CHOOSE center \in
        { Position2D_with(FAdd(FDiv(max_bb_pos.x, F(2)), FDiv(min_bb_pos.x, F(2))),
                          FAdd(FDiv(max_bb_pos.y, F(2)), FDiv(min_bb_pos.y, F(2)))) :
            max_bb_pos \in {maximum_position_in_transformed_bounding_box(self)},
            min_bb_pos \in {minimum_position_in_transformed_bounding_box(self)} } : TRUE

\* a slip: the operands of the two subtractions exchanged
size_of_bounding_box_min_minus_max(self) ==
    LET max_bb_pos == maximum_position_in_transformed_bounding_box(self)
        min_bb_pos == minimum_position_in_transformed_bounding_box(self)
    IN  Size2D_with(FSub(min_bb_pos.x, max_bb_pos.x), FSub(min_bb_pos.y, max_bb_pos.y))

size_of_bounding_box(self) ==
    LET max_bb_pos == maximum_position_in_transformed_bounding_box(self)
        min_bb_pos == minimum_position_in_transformed_bounding_box(self)
    IN  Size2D_with(FSub(max_bb_pos.x, min_bb_pos.x), FSub(max_bb_pos.y, min_bb_pos.y))

(***************************************************************************)
(* Geometry2D builder operations.                                          *)
(***************************************************************************)
\* a slip: the Point arm sets the color, as the Point arm of fill_color does
RECURSIVE line_or_border_color_colors_point(_, _)
line_or_border_color_colors_point(self, new_line_or_border_color) ==
    CASE self.kind = "Point" -> [self EXCEPT !.color = new_line_or_border_color]
      [] self.kind \in {"Line", "Polyline"} ->
            [self EXCEPT !.line_color = new_line_or_border_color]
      [] self.kind \in {"Triangle", "Square", "Rectangle", "Polygon", "Circle", "Ellipse"} ->
            [self EXCEPT !.border_color = new_line_or_border_color]
      [] self.kind = "Group" ->
            group([i \in 1..Len(self.geometries) |->
                line_or_border_color_colors_point(self.geometries[i],
                                                  new_line_or_border_color)])

RECURSIVE line_or_border_color(_, _)
line_or_border_color(self, new_line_or_border_color) ==
    CASE self.kind = "Point" -> self
      [] self.kind \in {"Line", "Polyline"} ->
            [self EXCEPT !.line_color = new_line_or_border_color]
      [] self.kind \in {"Triangle", "Square", "Rectangle", "Polygon", "Circle", "Ellipse"} ->
            [self EXCEPT !.border_color = new_line_or_border_color]
      [] self.kind = "Group" ->
            group([i \in 1..Len(self.geometries) |->
                line_or_border_color(self.geometries[i], new_line_or_border_color)])

RECURSIVE line_or_border_width(_, _)
line_or_border_width(self, new_line_or_border_width) ==
    CASE self.kind = "Point" -> self
      [] self.kind \in {"Line", "Polyline"} ->
            [self EXCEPT !.line_width = new_line_or_border_width]
      [] self.kind \in {"Triangle", "Square", "Rectangle", "Polygon", "Circle", "Ellipse"} ->
            [self EXCEPT !.border_width = new_line_or_border_width]
      [] self.kind = "Group" ->
            group([i \in 1..Len(self.geometries) |->
                line_or_border_width(self.geometries[i], new_line_or_border_width)])

\* the last arm is g => g: every other variant, Group included, is returned as it is
line_shape(self, new_line_shape) ==
    CASE self.kind \in {"Line", "Polyline"} -> [self EXCEPT !.line_shape = new_line_shape]
      [] OTHER -> self

\* the last arm is g => g: every other variant, Group included, is returned as it is
corner_shape(self, new_corner_shape) ==
    CASE self.kind \in {"Square", "Rectangle"} -> [self EXCEPT !.corner_shape = new_corner_shape]
      [] OTHER -> self

\* a slip: the new colour written into border_color, the field the arms of
\* line_or_border_color write
RECURSIVE fill_color_into_border_color(_, _)
fill_color_into_border_color(self, new_fill_color) ==
    CASE self.kind = "Point" -> [self EXCEPT !.color = new_fill_color]
      [] self.kind \in {"Line", "Polyline"} -> self
      [] self.kind \in {"Triangle", "Square", "Rectangle", "Polygon", "Circle", "Ellipse"} ->
            [self EXCEPT !.border_color = new_fill_color]
      [] self.kind = "Group" ->
            group([i \in 1..Len(self.geometries) |->
                fill_color_into_border_color(self.geometries[i], new_fill_color)])

RECURSIVE fill_color(_, _)
fill_color(self, new_fill_color) ==
    CASE self.kind = "Point" -> [self EXCEPT !.color = new_fill_color]
      [] self.kind \in {"Line", "Polyline"} -> self
      [] self.kind \in {"Triangle", "Square", "Rectangle", "Polygon", "Circle", "Ellipse"} ->
            [self EXCEPT !.fill_color = new_fill_color]
      [] self.kind = "Group" ->
            group([i \in 1..Len(self.geometries) |->
                fill_color(self.geometries[i], new_fill_color)])

\* a slip: a Group falls into a g => g arm, as in line_shape and corner_shape
append_transformation_skips_groups(self, transformation) ==
    IF self.kind = "Group"
    THEN self
    ELSE [self EXCEPT !.transformations = Append(self.transformations, transformation)]

RECURSIVE append_transformation(_, _)
append_transformation(self, transformation) ==
    IF self.kind = "Group"
    THEN group([i \in 1..Len(self.geometries) |->
                append_transformation(self.geometries[i], transformation)])
    ELSE [self EXCEPT !.transformations = Append(self.transformations, transformation)]

move_by(self, distance) == append_transformation(self, translation(distance))

\* a slip: the vector from the target to the center, not from the center to the
\* target
move_to_vector_reversed(self, center_position) ==
    move_by(self, vector_to(center_position, center_position_of_bounding_box(self)))

\* let center_position_of_bounding_box = self.center_position_of_bounding_box();
move_to(self, center_position) ==
    CHOOSE moved \in
        { move_by(self, vector_to(center, center_position)) :
            center \in {center_position_of_bounding_box(self)} } : TRUE

rotate_around(self, rotate_position, degree) ==
    append_transformation(self, rotation_around_position(rotate_position, degree))

rotate_around_origin(self, degree) == rotate_around(self, Position2D_zero, degree)

\* let center_position_of_bounding_box = self.center_position_of_bounding_box();
rotate_around_self(self, degree) ==
    CHOOSE rotated \in
        { rotate_around(self, center, degree) :
            center \in {center_position_of_bounding_box(self)} } : TRUE

\* a slip: the geometry scaled about the origin, which moves its center as wanted
\* and resizes it as well
scale_position_appends_scale(self, scale_factor) ==
    append_transformation(self, scale(scale_factor, scale_factor))

\* let center_position_of_bounding_box = self.center_position_of_bounding_box();
scale_position(self, scale_factor) ==
    CHOOSE moved \in
        { move_to(self, center_position) :
            center_position \in
                { Position2D_add(Position2D_zero,
                      Vector2D_mul(vector_to(Position2D_zero, center), scale_factor)) :
                    center \in {center_position_of_bounding_box(self)} } } : TRUE

(***************************************************************************)
(* Viewport2D and Geometry2D::transform.                                   *)
(***************************************************************************)
Viewport2D_with(center, size) ==
    [center |-> center, size |-> size, flipped_x_axis |-> FALSE, flipped_y_axis |-> FALSE]

flipped_x_axis(self, flipped) == [self EXCEPT !.flipped_x_axis = flipped]

flipped_y_axis(self, flipped) == [self EXCEPT !.flipped_y_axis = flipped]

\* a slip: the reflection in x pushed before the reflection in y
ViewportTransformation_reflections_swapped(source_viewport, target_viewport) ==
    composition(<<"ViewportTransformation">>,
        <<translation(vector_to(source_viewport.center, Position2D_zero))>>
        \o (IF source_viewport.flipped_x_axis # target_viewport.flipped_x_axis
            THEN <<reflection_x>> ELSE <<>>)
        \o (IF source_viewport.flipped_y_axis # target_viewport.flipped_y_axis
            THEN <<reflection_y>> ELSE <<>>)
        \o <<scale(FDiv(target_viewport.size.width, source_viewport.size.width),
                   FDiv(target_viewport.size.height, source_viewport.size.height))>>
        \o <<translation(vector_to(Position2D_zero, target_viewport.center))>>)

\* a slip: the last translation goes back to the centre of the source viewport
ViewportTransformation_to_source_center(source_viewport, target_viewport) ==
    composition(<<"ViewportTransformation">>,
        <<translation(vector_to(source_viewport.center, Position2D_zero))>>
        \o (IF source_viewport.flipped_y_axis # target_viewport.flipped_y_axis
            THEN <<reflection_y>> ELSE <<>>)
        \o (IF source_viewport.flipped_x_axis # target_viewport.flipped_x_axis
            THEN <<reflection_x>> ELSE <<>>)
        \o <<scale(FDiv(target_viewport.size.width, source_viewport.size.width),
                   FDiv(target_viewport.size.height, source_viewport.size.height))>>
        \o <<translation(vector_to(Position2D_zero, source_viewport.center))>>)

\* a slip: the scale factors are source size over target size
ViewportTransformation_scale_inverted(source_viewport, target_viewport) ==
    composition(<<"ViewportTransformation">>,
        <<translation(vector_to(source_viewport.center, Position2D_zero))>>
        \o (IF source_viewport.flipped_y_axis # target_viewport.flipped_y_axis
            THEN <<reflection_y>> ELSE <<>>)
        \o (IF source_viewport.flipped_x_axis # target_viewport.flipped_x_axis
            THEN <<reflection_x>> ELSE <<>>)
        \o <<scale(FDiv(source_viewport.size.width, target_viewport.size.width),
                   FDiv(source_viewport.size.height, target_viewport.size.height))>>
        \o <<translation(vector_to(Position2D_zero, target_viewport.center))>>)

\* the Composition that Geometry2D::transform builds and appends
ViewportTransformation(source_viewport, target_viewport) ==
    composition(<<"ViewportTransformation">>,
        <<translation(vector_to(source_viewport.center, Position2D_zero))>>
        \o (IF source_viewport.flipped_y_axis # target_viewport.flipped_y_axis
            THEN <<reflection_y>> ELSE <<>>)
        \o (IF source_viewport.flipped_x_axis # target_viewport.flipped_x_axis
            THEN <<reflection_x>> ELSE <<>>)
        \o <<scale(FDiv(target_viewport.size.width, source_viewport.size.width),
                   FDiv(target_viewport.size.height, source_viewport.size.height))>>
        \o <<translation(vector_to(Position2D_zero, target_viewport.center))>>)

transform(self, source_viewport, target_viewport) ==
    append_transformation(self, ViewportTransformation(source_viewport, target_viewport))

(***************************************************************************)
(* Inputs the callers of the model draw from.                              *)
(***************************************************************************)
P(x, y) == Position2D_with(F(x), F(y))

V(x, y) == Vector2D_with(F(x), F(y))

S(width, height) == Size2D_with(F(width), F(height))

TwoCircles == group(<<circle(P(0, 0), F(5)), circle(P(20, 0), F(5))>>)

LineAlongX == line(P(0, 0), P(10, 0))

InitialGeometries ==
    { point(P(1, 2)),
      LineAlongX,
      polyline(<<>>),
      polyline(<<P(0, 0), P(2, 3), P(-1, 1)>>),
      triangle(P(0, 0), P(4, 0), P(0, 3)),
      square(P(1, 1), F(2)),
      rectangle(P(0, 0), S(4, 2)),
      polygon(<<>>),
      polygon(<<P(0, 0), P(3, 1), P(1, 4)>>),
      circle(P(0, 0), F(5)),
      ellipse(P(2, 0), S(6, 3)),
      group(<<>>),
      TwoCircles,
      group(<<group(<<>>), polygon(<<>>)>>),
      group(<<polyline(<<>>), point(P(3, -1)), rectangle(P(0, 0), S(4, 2))>>),
      group(<<LineAlongX, group(<<square(P(1, 1), F(2)), polyline(<<>>)>>), group(<<>>)>>) }

FillColors == {Color_red}

BorderColors == {Color_blue}

Widths == {F(2)}

LineShapes == {LineShape_Round}

CornerShapes == {CornerShape_Bevel(F(1))}

Transformations ==
    { translation(V(1, -2)),
      scale(F(2), F(3)),
      rotation(2) }

SourceViewports ==
    { flipped_y_axis(Viewport2D_with(P(1, 1), S(4, 2)), TRUE) }

TargetViewports ==
    { flipped_y_axis(flipped_x_axis(Viewport2D_with(P(0, 3), S(2, 6)), fx), fy) :
        fx \in BOOLEAN, fy \in BOOLEAN }

PipelineTransformations ==
    { translation(V(1, 0)),
      scale(F(2), F(2)),
      rotation(2),
      reflection_y,
      rotation_around_position(P(1, 0), 2),
      composition(<<"Pair">>, <<shear_y(F(1)), composition(<<"Inner">>, <<translation(V(0, 1)), scale(F(2), F(1))>>)>>) }

Probes == {P(1, 0), P(2, 3)}

(***************************************************************************)
(* The builder session: a caller constructs a geometry and then makes      *)
(* builder calls on it, each consuming the value and returning the next.   *)
(***************************************************************************)
Init ==
    /\ geometry \in InitialGeometries
    /\ initial = geometry
    /\ previous = geometry
    /\ appended = <<>>
    /\ call = [name |-> "new"]
    /\ calls = 0
    /\ pipeline = Transformations2D_default
    /\ original = Transformations2D_default
    /\ probe = Position2D_zero
    /\ image = Position2D_zero
    /\ outcome = [function |-> "none"]
    /\ heap = EmptyHeap
    /\ agent = NoAgent

PipelineUnchanged == UNCHANGED <<pipeline, original, probe, image, outcome, heap, agent>>

Called(c, result) ==
    /\ calls < MaxCalls
    /\ calls' = calls + 1
    /\ call' = c
    /\ previous' = geometry
    /\ geometry' = result
    /\ initial' = initial
    /\ PipelineUnchanged

FillColor ==
    \E c \in FillColors :
        /\ Called([name |-> "fill_color", color |-> c], fill_color(geometry, c))
        /\ appended' = appended

LineOrBorderColor ==
    \E c \in BorderColors :
        /\ Called([name |-> "line_or_border_color", color |-> c],
                  line_or_border_color(geometry, c))
        /\ appended' = appended

LineOrBorderWidth ==
    \E w \in Widths :
        /\ Called([name |-> "line_or_border_width", width |-> w],
                  line_or_border_width(geometry, w))
        /\ appended' = appended

LineShape ==
    \E l \in LineShapes :
        /\ Called([name |-> "line_shape", shape |-> l], line_shape(geometry, l))
        /\ appended' = appended

CornerShape ==
    \E c \in CornerShapes :
        /\ Called([name |-> "corner_shape", shape |-> c], corner_shape(geometry, c))
        /\ appended' = appended

AppendTransformation ==
    \E t \in Transformations :
        /\ Called([name |-> "append_transformation", transformation |-> t],
                  append_transformation(geometry, t))
        /\ appended' = Append(appended, t)

Transform ==
    \E source \in SourceViewports, target \in TargetViewports :
        /\ Called([name |-> "transform", source |-> source, target |-> target],
                  transform(geometry, source, target))
        /\ appended' = Append(appended, ViewportTransformation(source, target))

Next ==
    \/ FillColor
    \/ LineOrBorderColor
    \/ LineOrBorderWidth
    \/ LineShape
    \/ CornerShape
    \/ AppendTransformation
    \/ Transform

Spec == Init /\ [][Next]_vars

(***************************************************************************)
(* The pipeline session: a caller holds a Transformations2D, pushes        *)
(* transformations onto it (as the leaf arms of append_transformation do), *)
(* reverses it, and transforms a position through it.                      *)
(***************************************************************************)
InitPipeline ==
    /\ pipeline = Transformations2D_default
    /\ original = Transformations2D_default
    /\ probe \in Probes
    /\ image = probe
    /\ call = [name |-> "new"]
    /\ calls = 0
    /\ geometry = group(<<>>)
    /\ initial = geometry
    /\ previous = geometry
    /\ appended = <<>>
    /\ outcome = [function |-> "none"]
    /\ heap = EmptyHeap
    /\ agent = NoAgent

GeometryUnchanged ==
    UNCHANGED <<geometry, initial, previous, appended, outcome, heap, agent>>

PipelineCalled(c) ==
    /\ calls < MaxPipelineCalls
    /\ calls' = calls + 1
    /\ call' = c
    /\ probe' = probe
    /\ GeometryUnchanged

Push ==
    \E t \in PipelineTransformations :
        /\ PipelineCalled([name |-> "push", transformation |-> t])
        /\ pipeline' = Append(pipeline, t)
        /\ UNCHANGED <<original, image>>

Reverse ==
    /\ PipelineCalled([name |-> "reverse"])
    /\ original' = pipeline
    /\ pipeline' = Transformations2D_reverse(pipeline)
    /\ UNCHANGED image

TransformPosition ==
    /\ PipelineCalled([name |-> "transform"])
    /\ image' = Position2D_transform(probe, pipeline)
    /\ UNCHANGED <<pipeline, original>>

NextPipeline ==
    \/ Push
    \/ Reverse
    \/ TransformPosition

SpecPipeline == InitPipeline /\ [][NextPipeline]_vars

(***************************************************************************)
(* The viewport session: a caller constructs a geometry and remaps it from *)
(* one viewport to another, again and again.                               *)
(***************************************************************************)
MaxViewportCalls == 2

\* viewports of non-zero size; any two of them differ in centre, size and flips
Viewports ==
    { Viewport2D_with(P(1, 1), S(4, 2)),
      flipped_x_axis(Viewport2D_with(P(0, 3), S(2, 6)), TRUE),
      flipped_y_axis(Viewport2D_with(P(-2, 0), S(1, 3)), TRUE),
      flipped_y_axis(flipped_x_axis(Viewport2D_with(P(3, -1), S(8, 1)), TRUE), TRUE) }

ViewportGeometries ==
    { point(P(1, 2)),
      LineAlongX,
      polyline(<<P(0, 0), P(2, 3), P(-1, 1)>>),
      triangle(P(0, 0), P(4, 0), P(0, 3)),
      rectangle(P(0, 0), S(4, 2)),
      ellipse(P(2, 0), S(6, 3)),
      TwoCircles,
      group(<<LineAlongX, group(<<square(P(1, 1), F(2)), polyline(<<>>)>>), group(<<>>)>>) }
        \cup { rectangle(v.center, v.size) : v \in Viewports }

InitViewport ==
    /\ geometry \in ViewportGeometries
    /\ initial = geometry
    /\ previous = geometry
    /\ appended = <<>>
    /\ call = [name |-> "new"]
    /\ calls = 0
    /\ pipeline = Transformations2D_default
    /\ original = Transformations2D_default
    /\ probe = Position2D_zero
    /\ image = Position2D_zero
    /\ outcome = [function |-> "none"]
    /\ heap = EmptyHeap
    /\ agent = NoAgent

TransformBetween ==
    \E source \in Viewports, target \in Viewports :
        /\ calls < MaxViewportCalls
        /\ calls' = calls + 1
        /\ call' = [name |-> "transform", source |-> source, target |-> target]
        /\ previous' = geometry
        /\ geometry' = transform(geometry, source, target)
        /\ appended' = Append(appended, ViewportTransformation(source, target))
        /\ initial' = initial
        /\ PipelineUnchanged

NextViewport == TransformBetween

SpecViewport == InitViewport /\ [][NextViewport]_vars

(***************************************************************************)
(* The function session: a caller evaluates one free function or method   *)
(* of the transformation algebra on arguments of its choice; outcome holds *)
(* the function, its arguments in order and what it returned.              *)
(***************************************************************************)
\* [[a, b, c], [d, e, f], [g, h, i]] of whole numbers
Matrix3x3(a, b, c, d, e, f, g, h, i) ==
    << <<F(a), F(b), F(c)>>, <<F(d), F(e), F(f)>>, <<F(g), F(h), F(i)>> >>

FixtureA == Matrix3x3(1, 2, 3, 4, 5, 6, 7, 8, 9)

FixtureB == Matrix3x3(10, 11, 12, 13, 14, 15, 16, 17, 18)

FixtureM == Matrix3x3(2, -1, 0, -1, 2, -1, 0, -1, 2)

\* matrices whose last row is not [0, 0, 1]
BottomLeftOne == Matrix3x3(1, 0, 0, 0, 1, 0, 1, 0, 1)

BottomLeftTwo == Matrix3x3(1, 2, 0, 0, 1, 1, 2, 0, 1)

Matrices ==
    { FixtureA, FixtureB, FixtureM, BottomLeftOne, BottomLeftTwo,
      transformation_matrix(identity),
      transformation_matrix(translation(V(1, -2))),
      transformation_matrix(rotation(2)),
      transformation_matrix(scale(F(2), F(3))),
      transformation_matrix(shear_x(F(2))) }

Vectors == { <<F(1), F(4), F(7)>>, <<F(2), F(3), F(1)>>, <<F(-1), F(0), F(1)>> }

\* one or more of every variant but Composition and Custom, none degenerate
LeafTransformations ==
    { translation(V(1, -2)), translation(V(0, 3)),
      identity,
      rotation(0), rotation(2), rotation(4), rotation(6),
      scale(F(2), F(3)), scale(F(-1), Rat(1, 2)),
      isotropic_scale(F(2)), isotropic_scale(Rat(-1, 3)),
      reflection_x, reflection_y,
      shear_x(F(2)), shear_y(F(-1)),
      shear_x_degree(1), shear_x_degree(3),
      shear_y_degree(1), shear_y_degree(4) }

\* Scale and IsotropicScale with a zero factor
DegenerateTransformations ==
    { scale(F(0), F(2)), scale(F(3), F(0)), scale(F(0), F(0)), isotropic_scale(F(0)) }

\* matrices that have no inverse: a degenerate scale, one with two proportional
\* rows, one with a zero column, the zero matrix
SingularMatrices ==
    { transformation_matrix(scale(F(0), F(2))),
      Matrix3x3(1, 2, 3, 2, 4, 6, 0, 0, 1),
      Matrix3x3(0, 1, 2, 0, 3, 4, 0, 5, 6),
      Matrix3x3(0, 0, 0, 0, 0, 0, 0, 0, 0) }

EmptyComposition == composition(<<"Empty">>, <<>>)

Compositions ==
    { EmptyComposition,
      composition(<<"Single">>, <<translation(V(1, -2))>>),
      composition(<<"Single">>, <<shear_x(F(2))>>),
      composition(<<"Single">>, <<EmptyComposition>>),
      composition(<<"Single">>, <<rotation_around_position(P(1, 0), 2)>>),
      composition(<<"Pair">>, <<translation(V(1, 0)), rotation(2)>>),
      rotation_around_position(P(1, 0), 2) }

Pipelines ==
    { Transformations2D_default }
        \cup { <<t>> : t \in LeafTransformations \cup Compositions }
        \cup { <<translation(V(1, 0)), t>> : t \in {rotation(2), scale(F(2), F(2))} }

InitFunctions ==
    /\ outcome = [function |-> "none"]
    /\ heap = EmptyHeap
    /\ agent = NoAgent
    /\ pipeline = Transformations2D_default
    /\ original = Transformations2D_default
    /\ probe = Position2D_zero
    /\ image = Position2D_zero
    /\ call = [name |-> "new"]
    /\ calls = 0
    /\ geometry = group(<<>>)
    /\ initial = geometry
    /\ previous = geometry
    /\ appended = <<>>

Evaluated(o) ==
    /\ outcome' = o
    /\ UNCHANGED <<geometry, initial, appended, call, previous, pipeline, original, probe,
                   image, calls, heap, agent>>

MultiplyMatrices ==
    \E a \in Matrices, b \in Matrices :
        Evaluated([function |-> "multiply_matrices_3x3", arguments |-> <<a, b>>,
                   returned |-> multiply_matrices_3x3(a, b)])

MultiplyVector ==
    \E v \in Vectors, m \in Matrices :
        Evaluated([function |-> "multiply_vector_1x3_and_matrix_3x3", arguments |-> <<v, m>>,
                   returned |-> multiply_vector_1x3_and_matrix_3x3(v, m)])

Determinant ==
    \E m \in Matrices :
        Evaluated([function |-> "determinant_of_matrix_3x3", arguments |-> <<m>>,
                   returned |-> determinant_of_matrix_3x3(m)])

Inverse ==
    \E m \in Matrices :
        Evaluated([function |-> "inverse_of_matrix_3x3", arguments |-> <<m>>,
                   returned |-> inverse_of_matrix_3x3(m)])

ReverseTransformation ==
    \E t \in LeafTransformations :
        Evaluated([function |-> "Transformation2D::reverse", arguments |-> <<t>>,
                   returned |-> Transformation2D_reverse(t)])

InverseOfSingular ==
    \E m \in SingularMatrices :
        Evaluated([function |-> "inverse_of_matrix_3x3", arguments |-> <<m>>,
                   returned |-> inverse_of_matrix_3x3(m)])

ReverseDegenerate ==
    \E t \in DegenerateTransformations :
        Evaluated([function |-> "Transformation2D::reverse", arguments |-> <<t>>,
                   returned |-> Transformation2D_reverse(t)])

MatrixOfTransformation ==
    \E t \in LeafTransformations \cup Compositions :
        Evaluated([function |-> "Transformation2D::transformation_matrix",
                   arguments |-> <<t>>, returned |-> transformation_matrix(t)])

MatrixOfTransformations ==
    \E ts \in Pipelines :
        Evaluated([function |-> "Transformations2D::transformation_matrix",
                   arguments |-> <<ts>>,
                   returned |-> Transformations2D_transformation_matrix(ts)])

\* a constructor followed by the two corner queries on what it returned
BoundingBoxOfNew ==
    \E g \in InitialGeometries :
        Evaluated([function |-> "Geometry2D::bounding_box", arguments |-> <<g>>,
                   returned |-> <<minimum_position_in_transformed_bounding_box(g),
                                  maximum_position_in_transformed_bounding_box(g)>>])

\* Pixel::with
Pixel_with(red, green, blue) == [red |-> red, green |-> green, blue |-> blue]

\* PixelArray::with: data is Vec::new()
PixelArray_with(width, height) == [data |-> <<>>, width |-> width, height |-> height]

\* impl Index<(usize, usize)> for PixelArray: the explicit panic!(), then the
\* bounds check of Vec's own indexing
PixelArray_index(self, index) ==
    IF index[1] >= self.width \/ index[2] >= self.height
    THEN [Panic |-> "explicit panic"]
    ELSE IF index[2] * self.width + index[1] >= Len(self.data)
    THEN [Panic |-> "index out of bounds"]
    ELSE [Ok |-> self.data[index[2] * self.width + index[1] + 1]]

\* impl IndexMut<(usize, usize)> for PixelArray, and the assignment through the
\* reference it returns
PixelArray_index_mut(self, index, pixel) ==
    IF index[1] >= self.width \/ index[2] >= self.height
    THEN [Panic |-> "explicit panic"]
    ELSE IF index[2] * self.width + index[1] >= Len(self.data)
    THEN [Panic |-> "index out of bounds"]
    ELSE [Ok |-> [self EXCEPT !.data[index[2] * self.width + index[1] + 1] = pixel]]

MaxSide == 2

\* arrays as PixelArray::with returns them, and arrays whose caller filled data
\* with width * height pixels, each different
PixelArrays ==
    { PixelArray_with(width, height) : width \in 0..MaxSide, height \in 0..MaxSide }
        \cup { [data |-> [k \in 1..(width * height) |-> Pixel_with(k, 0, 0)],
                width |-> width, height |-> height] :
                    width \in 1..MaxSide, height \in 1..MaxSide }

ReadPixel ==
    \E self \in PixelArrays, x \in 0..MaxSide, y \in 0..MaxSide :
        Evaluated([function |-> "PixelArray::index", arguments |-> <<self, <<x, y>>>>,
                   returned |-> PixelArray_index(self, <<x, y>>)])

WritePixel ==
    \E self \in PixelArrays, x \in 0..MaxSide, y \in 0..MaxSide :
        Evaluated([function |-> "PixelArray::index_mut",
                   arguments |-> <<self, <<x, y>>, Pixel_with(255, 255, 255)>>,
                   returned |-> PixelArray_index_mut(self, <<x, y>>,
                                                     Pixel_with(255, 255, 255))])

NextFunctions ==
    \/ MultiplyMatrices
    \/ MultiplyVector
    \/ Determinant
    \/ Inverse
    \/ ReverseTransformation
    \/ InverseOfSingular
    \/ ReverseDegenerate
    \/ MatrixOfTransformation
    \/ MatrixOfTransformations
    \/ BoundingBoxOfNew
    \/ ReadPixel
    \/ WritePixel

SpecFunctions == InitFunctions /\ [][NextFunctions]_vars

(***************************************************************************)
(* The placement session: a caller constructs a geometry and then moves,   *)
(* rotates and rescales it with the compound builder calls, each consuming *)
(* the value and returning the next.  Angles are quarter turns.            *)
(***************************************************************************)
MaxPlacementCalls == 2

PlacementGeometries ==
    { point(P(1, 2)),
      LineAlongX,
      triangle(P(0, 0), P(4, 0), P(0, 3)),
      rectangle(P(2, 1), S(4, 2)),
      TwoCircles,
      group(<<>>),
      group(<<polyline(<<>>), point(P(3, -1)), group(<<square(P(1, 1), F(2))>>)>>) }

InitPlacement ==
    /\ geometry \in PlacementGeometries
    /\ initial = geometry
    /\ previous = geometry
    /\ appended = <<>>
    /\ call = [name |-> "new"]
    /\ calls = 0
    /\ pipeline = Transformations2D_default
    /\ original = Transformations2D_default
    /\ probe = Position2D_zero
    /\ image = Position2D_zero
    /\ outcome = [function |-> "none"]
    /\ heap = EmptyHeap
    /\ agent = NoAgent

\* a call that appends the transformation t to every leaf and returns result
Placed(c, result, t) ==
    /\ calls < MaxPlacementCalls
    /\ calls' = calls + 1
    /\ call' = c
    /\ previous' = geometry
    /\ geometry' = result
    /\ appended' = Append(appended, t)
    /\ initial' = initial
    /\ PipelineUnchanged

Stretch ==
    \E t \in {scale(F(2), F(3))} :
        Placed([name |-> "append_transformation", transformation |-> t],
               append_transformation(geometry, t), t)

MoveBy ==
    \E distance \in {V(3, -1)} :
        Placed([name |-> "move_by", distance |-> distance],
               move_by(geometry, distance), translation(distance))

MoveTo ==
    \E center_position \in {P(5, -2)}, center \in {center_position_of_bounding_box(geometry)} :
        Placed([name |-> "move_to", center_position |-> center_position],
               move_to(geometry, center_position),
               translation(vector_to(center, center_position)))

RotateAroundOrigin ==
    \E degree \in {2} :
        Placed([name |-> "rotate_around_origin", degree |-> degree],
               rotate_around_origin(geometry, degree),
               rotation_around_position(Position2D_zero, degree))

RotateAroundSelf ==
    \E degree \in {2}, center \in {center_position_of_bounding_box(geometry)} :
        Placed([name |-> "rotate_around_self", degree |-> degree],
               rotate_around_self(geometry, degree),
               rotation_around_position(center, degree))

RotateAround ==
    \E rotate_position \in {P(1, 0)}, degree \in {6} :
        Placed([name |-> "rotate_around", rotate_position |-> rotate_position,
                degree |-> degree],
               rotate_around(geometry, rotate_position, degree),
               rotation_around_position(rotate_position, degree))

ScalePosition ==
    \E scale_factor \in {F(1), Rat(-1, 2)},
       center \in {center_position_of_bounding_box(geometry)} :
        Placed([name |-> "scale_position", scale_factor |-> scale_factor],
               scale_position(geometry, scale_factor),
               translation(vector_to(center,
                   Position2D_add(Position2D_zero,
                       Vector2D_mul(vector_to(Position2D_zero, center), scale_factor)))))

Remap ==
    \E source \in SourceViewports, target \in {Viewport2D_with(P(0, 3), S(2, 6))} :
        Placed([name |-> "transform", source |-> source, target |-> target],
               transform(geometry, source, target),
               ViewportTransformation(source, target))

\* the caller takes the pipeline out of every leaf and puts its reverse in
RECURSIVE reverse_every_pipeline(_)
reverse_every_pipeline(self) ==
    IF self.kind = "Group"
    THEN group([i \in 1..Len(self.geometries) |->
                reverse_every_pipeline(self.geometries[i])])
    ELSE [self EXCEPT !.transformations = Transformations2D_reverse(@)]

ReversePipelines ==
    /\ calls < MaxPlacementCalls
    /\ calls' = calls + 1
    /\ call' = [name |-> "reverse"]
    /\ previous' = geometry
    /\ geometry' = reverse_every_pipeline(geometry)
    /\ appended' = Transformations2D_reverse(appended)
    /\ initial' = initial
    /\ PipelineUnchanged

NextPlacement ==
    \/ Stretch
    \/ MoveBy
    \/ MoveTo
    \/ RotateAroundOrigin
    \/ RotateAroundSelf
    \/ RotateAround
    \/ ScalePosition
    \/ Remap
    \/ ReversePipelines

SpecPlacement == InitPlacement /\ [][NextPlacement]_vars

(***************************************************************************)
(* Helpers of the properties.                                              *)
(***************************************************************************)
\* the ops of a sequence applied to a position one after the other, the first first
RECURSIVE ApplyInOrder(_, _)
ApplyInOrder(p, ops) ==
    IF ops = <<>> THEN p
    ELSE ApplyInOrder(Position2D_transform(p, <<Head(ops)>>), Tail(ops))

\* every Composition found in a sequence of ops, at any depth
RECURSIVE CompositionsIn(_)
CompositionsIn(ops) ==
    IF ops = <<>> THEN {}
    ELSE LET t == Head(ops)
         IN  (IF t.kind = "Composition"
              THEN {t} \cup CompositionsIn(t.transformations)
              ELSE {})
             \cup CompositionsIn(Tail(ops))

\* r is what the documentation says reverse returns for t: a Composition of the
\* reversed children in reversed list order, a Custom of the inverted matrix for a leaf
RECURSIVE IsDocumentedReverse(_, _)
IsDocumentedReverse(r, t) ==
    IF t.kind = "Composition"
    THEN /\ r.kind = "Composition"
         /\ Len(r.transformations) = Len(t.transformations)
         /\ \A i \in 1..Len(t.transformations) :
                IsDocumentedReverse(r.transformations[i],
                    t.transformations[Len(t.transformations) + 1 - i])
    ELSE /\ r.kind = "Custom"
         /\ r.transformation = inverse_of_matrix_3x3(transformation_matrix(t))

(***************************************************************************)
(* C1: application order follows list order.  A position transformed by a *)
(* pipeline [op1, ..., opn] is opn(...(op2(op1(p)))): the first-listed op   *)
(* is applied first and the most recently pushed op last; the same holds   *)
(* of the children of every Composition; translate(1,0) then scale(2,2)    *)
(* maps (1,0) to (4,0).                                                    *)
(***************************************************************************)
C1_ApplicationFollowsListOrder ==
    /\ call.name = "transform" => image = ApplyInOrder(probe, pipeline)
    /\ \A c \in CompositionsIn(pipeline) : \A p \in Probes :
            Position2D_transform(p, <<c>>) = ApplyInOrder(p, c.transformations)
    /\ (call.name = "transform" /\ probe = P(1, 0)
            /\ pipeline = <<translation(V(1, 0)), scale(F(2), F(2))>>)
        => image = P(4, 0)

C1_Witness ==
    /\ call.name = "transform"
    /\ probe = P(1, 0)
    /\ pipeline = <<translation(V(1, 0)), scale(F(2), F(2))>>
    /\ image = P(4, 0)
    /\ image # ApplyInOrder(probe, VecReverse(pipeline))

(***************************************************************************)
(* C2: Transformations2D::reverse undoes the pipeline.  For every pipeline *)
(* P of non-degenerate ops, Compositions of non-commuting children         *)
(* included, transforming a position by P and then by P.reverse() returns  *)
(* the position: matrix(P.reverse()) composed with matrix(P) is the        *)
(* identity.                                                               *)
(***************************************************************************)
C2_ReverseUndoesPipeline ==
    call.name = "reverse" =>
        /\ \A p \in Probes :
                Position2D_transform(Position2D_transform(p, original), pipeline) = p
        /\ Transformations2D_transformation_matrix(original \o pipeline) = IdentityMatrix

(***************************************************************************)
(* C3: Transformation2D::reverse of a Composition [c1, ..., cn] is a       *)
(* Composition whose list is [reverse(cn), ..., reverse(c1)]; of any other *)
(* op it is a Custom holding inverse_of_matrix_3x3 of the op's matrix.     *)
(***************************************************************************)
C3_ReverseOfCompositionReversesList ==
    call.name = "reverse" =>
        /\ Len(pipeline) = Len(original)
        /\ \A i \in 1..Len(original) :
                IsDocumentedReverse(pipeline[i], original[Len(original) + 1 - i])

(***************************************************************************)
(* Helpers of the geometry properties.                                     *)
(***************************************************************************)
\* the call recorded in c, made on the geometry g
ApplyCall(c, g) ==
    CASE c.name = "fill_color" -> fill_color(g, c.color)
      [] c.name = "line_or_border_color" -> line_or_border_color(g, c.color)
      [] c.name = "line_or_border_width" -> line_or_border_width(g, c.width)
      [] c.name = "line_shape" -> line_shape(g, c.shape)
      [] c.name = "corner_shape" -> corner_shape(g, c.shape)
      [] c.name = "append_transformation" -> append_transformation(g, c.transformation)
      [] c.name = "transform" -> transform(g, c.source, c.target)

Setters ==
    {"fill_color", "line_or_border_color", "line_or_border_width", "line_shape",
     "corner_shape", "append_transformation"}

\* the leaves of a geometry tree, left to right
RECURSIVE Leaves(_)
Leaves(g) ==
    IF g.kind # "Group" THEN <<g>>
    ELSE IF g.geometries = <<>> THEN <<>>
    ELSE Leaves(Head(g.geometries)) \o Leaves(group(Tail(g.geometries)))

\* the groups of a geometry tree, itself included
RECURSIVE Groups(_)
Groups(g) ==
    IF g.kind # "Group" THEN {}
    ELSE {g} \cup UNION {Groups(g.geometries[i]) : i \in 1..Len(g.geometries)}

\* the tree without what the leaves carry: variants and child order only
RECURSIVE Shape(_)
Shape(g) ==
    IF g.kind # "Group" THEN [kind |-> g.kind]
    ELSE [kind |-> "Group",
          geometries |-> [i \in 1..Len(g.geometries) |-> Shape(g.geometries[i])]]

Range(f) == {f[i] : i \in DOMAIN f}

\* the defining vertices of a leaf, before its pipeline is applied
Vertices(g) ==
    CASE g.kind = "Point" -> {g.position}
      [] g.kind \in {"Line", "Polyline", "Triangle", "Polygon"} -> Range(g.points)
      [] g.kind = "Square" ->
            {Position2D_with(FAdd(g.center_position.x, FMul(sx, FDiv(g.edge_length, F(2)))),
                             FAdd(g.center_position.y, FMul(sy, FDiv(g.edge_length, F(2))))) :
                sx \in {F(-1), F(1)}, sy \in {F(-1), F(1)}}
      [] g.kind \in {"Rectangle", "Ellipse"} ->
            {Position2D_with(FAdd(g.center_position.x, FMul(sx, FDiv(g.size.width, F(2)))),
                             FAdd(g.center_position.y, FMul(sy, FDiv(g.size.height, F(2))))) :
                sx \in {F(-1), F(1)}, sy \in {F(-1), F(1)}}
      [] g.kind = "Circle" ->
            {Position2D_with(FAdd(g.center_position.x, FMul(sx, g.radius)),
                             FAdd(g.center_position.y, FMul(sy, g.radius))) :
                sx \in {F(-1), F(1)}, sy \in {F(-1), F(1)}}

\* the matrix m applied to the position v as the column vector (v.x, v.y, 1)
MatrixAt(m, v) ==
    Position2D_with(
        FAdd(FAdd(FMul(m[1][1], v.x), FMul(m[1][2], v.y)), m[1][3]),
        FAdd(FAdd(FMul(m[2][1], v.x), FMul(m[2][2], v.y)), m[2][3]))

\* the vertices of a leaf after its own pipeline
TransformedVertices(g) ==
    LET m == Transformations2D_transformation_matrix(g.transformations)
    IN  {MatrixAt(m, v) : v \in Vertices(g)}

\* the vertices of all leaves of a tree, each after its own pipeline
AllTransformedVertices(g) ==
    LET leaves == Leaves(g)
    IN  UNION {TransformedVertices(leaves[i]) : i \in 1..Len(leaves)}

HasExtent(g) ==
    LET leaves == Leaves(g)
    IN  \E i \in 1..Len(leaves) : Vertices(leaves[i]) # {}

Least(numbers) == CHOOSE m \in numbers : \A n \in numbers : ~FLess(n, m)

Greatest(numbers) == CHOOSE m \in numbers : \A n \in numbers : ~FLess(m, n)

\* component-wise minimum and maximum of a non-empty set of positions
LeastCorner(positions) ==
    Position2D_with(Least({q.x : q \in positions}), Least({q.y : q \in positions}))

GreatestCorner(positions) ==
    Position2D_with(Greatest({q.x : q \in positions}), Greatest({q.y : q \in positions}))

SentinelMinimum == Position2D_with(F(F64_MAX), F(F64_MAX))

SentinelMaximum == Position2D_with(F(-F64_MAX), F(-F64_MAX))

(***************************************************************************)
(* C4: on a Group every setter (fill_color, line_or_border_color,          *)
(* line_or_border_width, line_shape, corner_shape, append_transformation)  *)
(* recurses into all children: op(Group([g1, ..., gn])) equals             *)
(* Group([op(g1), ..., op(gn)]), for nested groups too.                    *)
(***************************************************************************)
C4_SettersRecurseIntoGroups ==
    call.name \in Setters =>
        /\ previous.kind = "Group" =>
                geometry = group([i \in 1..Len(previous.geometries) |->
                                    ApplyCall(call, previous.geometries[i])])
        /\ \A g \in Groups(previous) :
                ApplyCall(call, g) = group([i \in 1..Len(g.geometries) |->
                                              ApplyCall(call, g.geometries[i])])

(***************************************************************************)
(* C5: a style setter applied to a leaf on which the attribute is          *)
(* meaningless returns a value equal to its input: fill_color on Line and  *)
(* Polyline; line_or_border_color and line_or_border_width on Point;       *)
(* line_shape on every leaf other than Line and Polyline; corner_shape on  *)
(* every leaf other than Square and Rectangle.                             *)
(***************************************************************************)
Inapplicable(name, kind) ==
    \/ name = "fill_color" /\ kind \in {"Line", "Polyline"}
    \/ name \in {"line_or_border_color", "line_or_border_width"} /\ kind = "Point"
    \/ name = "line_shape" /\ kind \notin {"Line", "Polyline", "Group"}
    \/ name = "corner_shape" /\ kind \notin {"Square", "Rectangle", "Group"}

C5_InapplicableSetterReturnsInput ==
    /\ Inapplicable(call.name, previous.kind) => geometry = previous
    /\ call.name \in Setters =>
            \A i \in 1..Len(Leaves(previous)) :
                Inapplicable(call.name, Leaves(previous)[i].kind)
                    => ApplyCall(call, Leaves(previous)[i]) = Leaves(previous)[i]

C5_Witness ==
    /\ call.name = "fill_color"
    /\ previous.kind = "Line"
    /\ calls = 2
    /\ geometry = previous
    /\ geometry # initial

(***************************************************************************)
(* C6: append_transformation threads the op into every leaf.  After any   *)
(* sequence of calls that append t1, ..., tk to a geometry tree, the tree  *)
(* shape and child order are unchanged, every leaf's pipeline is its       *)
(* original pipeline followed by [t1, ..., tk] in that order, and a group  *)
(* stores nothing but its children.                                        *)
(***************************************************************************)
C6_AppendThreadsIntoEveryLeaf ==
    /\ Shape(geometry) = Shape(initial)
    /\ Len(Leaves(geometry)) = Len(Leaves(initial))
    /\ \A i \in 1..Len(Leaves(initial)) :
            Leaves(geometry)[i].transformations
                = Leaves(initial)[i].transformations \o appended
    /\ \A g \in Groups(geometry) : DOMAIN g = {"kind", "geometries"}

C6_Witness ==
    /\ initial.kind = "Group"
    /\ Groups(initial) # {initial}
    /\ Len(Leaves(initial)) >= 3
    /\ Len(appended) = 2
    /\ appended[1] # appended[2]
    /\ \A i \in 1..Len(Leaves(geometry)) : Leaves(geometry)[i].transformations = appended

(***************************************************************************)
(* C7: for every leaf the minimum (maximum) position of the transformed    *)
(* bounding box is the component-wise minimum (maximum) over the leaf's    *)
(* defining vertices after the leaf's own pipeline: 1 vertex for Point, 2  *)
(* for Line, all for Polyline and Polygon, 3 for Triangle, the 4 box       *)
(* corners for Square, Rectangle, Ellipse and Circle.  A Line from (0,0)   *)
(* to (10,0) with an empty pipeline has corners (0,0) and (10,0).          *)
(***************************************************************************)
C7_LeafBoundingBoxOverVertices ==
    /\ LET leaves == Leaves(geometry)
       IN  \A i \in 1..Len(leaves) :
            LET leaf == leaves[i]
                vertices == TransformedVertices(leaf)
            IN  Vertices(leaf) # {} =>
                    /\ minimum_position_in_transformed_bounding_box(leaf)
                            = LeastCorner(vertices)
                    /\ maximum_position_in_transformed_bounding_box(leaf)
                            = GreatestCorner(vertices)
    /\ (geometry.kind = "Line" /\ geometry.points = <<P(0, 0), P(10, 0)>>
            /\ geometry.transformations = <<>>)
        => /\ minimum_position_in_transformed_bounding_box(geometry) = P(0, 0)
           /\ maximum_position_in_transformed_bounding_box(geometry) = P(10, 0)

C7_Witness ==
    /\ geometry.kind = "Ellipse"
    /\ Len(geometry.transformations) = 2
    /\ Cardinality(TransformedVertices(geometry)) = 4
    /\ minimum_position_in_transformed_bounding_box(geometry)
            # minimum_position_in_transformed_bounding_box(initial)
    /\ size_of_bounding_box(geometry) # size_of_bounding_box(initial)

(***************************************************************************)
(* C8: the minimum (maximum) corner of a Group is the component-wise       *)
(* minimum (maximum) of the corners of those children that produce an      *)
(* extent, through nested groups; children without an extent are ignored.  *)
(* A Group of Circle((0,0), 5) and Circle((20,0), 5) has corners (-5,-5)   *)
(* and (25,5).                                                             *)
(***************************************************************************)
C8_GroupBoundingBoxOverChildren ==
    /\ \A g \in Groups(geometry) :
            LET extents == {i \in 1..Len(g.geometries) : HasExtent(g.geometries[i])}
                min_bb_pos == minimum_position_in_transformed_bounding_box(g)
                max_bb_pos == maximum_position_in_transformed_bounding_box(g)
                vertices == AllTransformedVertices(g)
            IN  extents # {} =>
                    /\ min_bb_pos
                        = LeastCorner({minimum_position_in_transformed_bounding_box(
                                            g.geometries[i]) : i \in extents})
                    /\ max_bb_pos
                        = GreatestCorner({maximum_position_in_transformed_bounding_box(
                                            g.geometries[i]) : i \in extents})
                    /\ min_bb_pos = LeastCorner(vertices)
                    /\ max_bb_pos = GreatestCorner(vertices)
    /\ geometry = TwoCircles
        => /\ minimum_position_in_transformed_bounding_box(geometry) = P(-5, -5)
           /\ maximum_position_in_transformed_bounding_box(geometry) = P(25, 5)

C8_Witness ==
    /\ geometry.kind = "Group"
    /\ Len(geometry.geometries) = 3
    /\ ~HasExtent(geometry.geometries[1])
    /\ HasExtent(geometry.geometries[2])
    /\ HasExtent(geometry.geometries[3])
    /\ Len(appended) = 2
    /\ minimum_position_in_transformed_bounding_box(geometry)
            # minimum_position_in_transformed_bounding_box(geometry.geometries[2])
    /\ minimum_position_in_transformed_bounding_box(geometry)
            # minimum_position_in_transformed_bounding_box(geometry.geometries[3])

DocumentedViewportOps(source, target) ==
    <<translation(Vector2D_with(FNeg(source.center.x), FNeg(source.center.y)))>>
    \o (IF source.flipped_y_axis # target.flipped_y_axis THEN <<reflection_y>> ELSE <<>>)
    \o (IF source.flipped_x_axis # target.flipped_x_axis THEN <<reflection_x>> ELSE <<>>)
    \o <<scale(FDiv(target.size.width, source.size.width),
               FDiv(target.size.height, source.size.height))>>
    \o <<translation(Vector2D_with(target.center.x, target.center.y))>>

C10_TransformAppendsViewportComposition ==
    call.name = "transform" =>
        LET ops == DocumentedViewportOps(call.source, call.target)
            added == [kind |-> "Composition",
                      name |-> <<"ViewportTransformation">>,
                      transformations |-> ops]
        IN  /\ Len(ops) \in {3, 4, 5}
            /\ Shape(geometry) = Shape(previous)
            /\ \A i \in 1..Len(Leaves(previous)) :
                    Leaves(geometry)[i].transformations
                        = Append(Leaves(previous)[i].transformations, added)
            /\ \A i \in 1..Len(Leaves(previous)) :
                    [Leaves(geometry)[i] EXCEPT !.transformations = <<>>]
                        = [Leaves(previous)[i] EXCEPT !.transformations = <<>>]

C10_Witness ==
    /\ call.name = "transform"
    /\ call.source.flipped_x_axis # call.target.flipped_x_axis
    /\ call.source.flipped_y_axis # call.target.flipped_y_axis
    /\ Len(Leaves(geometry)) = 2
    /\ \A i \in 1..2 :
            /\ Len(Leaves(geometry)[i].transformations) = 2
            /\ Leaves(geometry)[i].transformations[2].kind = "Composition"
            /\ Len(Leaves(geometry)[i].transformations[2].transformations) = 5

(***************************************************************************)
(* Helpers of the matrix properties: the textbook definitions.             *)
(***************************************************************************)
\* the standard product of a and b: rows of a by columns of b
MatrixProduct(a, b) ==
    [i \in 1..3 |-> [j \in 1..3 |->
        FAdd(FAdd(FMul(a[i][1], b[1][j]), FMul(a[i][2], b[2][j])), FMul(a[i][3], b[3][j]))]]

\* the determinant by expansion along the first row
MathDeterminant(m) ==
    FAdd(FSub(FMul(m[1][1], FSub(FMul(m[2][2], m[3][3]), FMul(m[2][3], m[3][2]))),
              FMul(m[1][2], FSub(FMul(m[2][1], m[3][3]), FMul(m[2][3], m[3][1])))),
         FMul(m[1][3], FSub(FMul(m[2][1], m[3][2]), FMul(m[2][2], m[3][1]))))

(***************************************************************************)
(* C12 as stated: multiply_matrices_3x3(a, b) is the standard product of a *)
(* and b in that argument order, result[i][j] = a[i][0]*b[0][j] +          *)
(* a[i][1]*b[1][j] + a[i][2]*b[2][j].                                      *)
(***************************************************************************)
C12_StandardProductInArgumentOrder ==
    outcome.function = "multiply_matrices_3x3" =>
        outcome.returned = MatrixProduct(outcome.arguments[1], outcome.arguments[2])

(***************************************************************************)
(* C12 amended: multiply_matrices_3x3(a, b) is the standard product with   *)
(* the operands exchanged, b times a: the second argument is the left      *)
(* factor.  For the test's pair it differs from a times b.                 *)
(***************************************************************************)
C12_StandardProductOperandsExchanged ==
    outcome.function = "multiply_matrices_3x3" =>
        /\ outcome.returned = MatrixProduct(outcome.arguments[2], outcome.arguments[1])
        /\ (outcome.arguments[1] = FixtureA /\ outcome.arguments[2] = FixtureB)
            => outcome.returned # MatrixProduct(FixtureA, FixtureB)

C12_Witness ==
    /\ outcome.function = "multiply_matrices_3x3"
    /\ outcome.arguments[1] = FixtureA
    /\ outcome.arguments[2] = FixtureB
    /\ outcome.returned = MatrixProduct(FixtureB, FixtureA)
    /\ MatrixProduct(FixtureB, FixtureA) # MatrixProduct(FixtureA, FixtureB)

(***************************************************************************)
(* C13: for A = [[1,2,3],[4,5,6],[7,8,9]] and B = [[10,11,12],[13,14,15],  *)
(* [16,17,18]], multiply_matrices_3x3(A, B) is [[138,171,204],             *)
(* [174,216,258],[210,261,312]]; in general result[i][j] is the sum over k *)
(* of matrix_b[i][k] * matrix_a[k][j]; and                                 *)
(* multiply_vector_1x3_and_matrix_3x3(v, M)[i] is the sum over j of        *)
(* M[i][j] * v[j], M applied to v as a column vector.                      *)
(***************************************************************************)
C13_MultiplyFixtures ==
    /\ outcome.function = "multiply_matrices_3x3" =>
        /\ \A i \in 1..3, j \in 1..3 :
                outcome.returned[i][j] =
                    FAdd(FAdd(FMul(outcome.arguments[2][i][1], outcome.arguments[1][1][j]),
                              FMul(outcome.arguments[2][i][2], outcome.arguments[1][2][j])),
                         FMul(outcome.arguments[2][i][3], outcome.arguments[1][3][j]))
        /\ (outcome.arguments[1] = FixtureA /\ outcome.arguments[2] = FixtureB)
            => outcome.returned = Matrix3x3(138, 171, 204, 174, 216, 258, 210, 261, 312)
    /\ outcome.function = "multiply_vector_1x3_and_matrix_3x3" =>
        /\ \A i \in 1..3 :
                outcome.returned[i] =
                    FAdd(FAdd(FMul(outcome.arguments[2][i][1], outcome.arguments[1][1]),
                              FMul(outcome.arguments[2][i][2], outcome.arguments[1][2])),
                         FMul(outcome.arguments[2][i][3], outcome.arguments[1][3]))
        /\ (outcome.arguments[1] = <<F(1), F(4), F(7)>> /\ outcome.arguments[2] = FixtureB)
            => outcome.returned = <<F(138), F(174), F(210)>>

C13_Witness ==
    /\ outcome.function = "multiply_vector_1x3_and_matrix_3x3"
    /\ outcome.arguments[1] = <<F(1), F(4), F(7)>>
    /\ outcome.arguments[2] = FixtureB
    /\ outcome.returned = <<F(138), F(174), F(210)>>

(***************************************************************************)
(* C14: determinant_of_matrix_3x3(M) is the mathematical determinant of M  *)
(* for every 3x3 matrix M, those with M[2][0] # 0 included; for            *)
(* M = [[2,-1,0],[-1,2,-1],[0,-1,2]] it is 4.                              *)
(***************************************************************************)
C14_DeterminantIsMathematical ==
    outcome.function = "determinant_of_matrix_3x3" =>
        /\ outcome.returned = MathDeterminant(outcome.arguments[1])
        /\ outcome.arguments[1] = FixtureM => outcome.returned = F(4)

(***************************************************************************)
(* C15: for every 3x3 matrix M with non-zero determinant, affine or not,   *)
(* the product of M and inverse_of_matrix_3x3(M) is the identity in either *)
(* order; for M = [[2,-1,0],[-1,2,-1],[0,-1,2]] the inverse is             *)
(* [[3/4,2/4,1/4],[2/4,4/4,2/4],[1/4,2/4,3/4]].                            *)
(***************************************************************************)
C15_InverseTimesMatrixIsIdentity ==
    outcome.function = "inverse_of_matrix_3x3" =>
        /\ MathDeterminant(outcome.arguments[1]) # F(0) =>
            /\ MatrixProduct(outcome.arguments[1], outcome.returned) = IdentityMatrix
            /\ MatrixProduct(outcome.returned, outcome.arguments[1]) = IdentityMatrix
        /\ outcome.arguments[1] = FixtureM =>
                outcome.returned = << <<Rat(3, 4), Rat(2, 4), Rat(1, 4)>>,
                                    <<Rat(2, 4), Rat(4, 4), Rat(2, 4)>>,
                                    <<Rat(1, 4), Rat(2, 4), Rat(3, 4)>> >>

(***************************************************************************)
(* C16: for every non-degenerate leaf op (Translation, Identity, Rotation, *)
(* Scale and IsotropicScale with non-zero factors, ReflectionX,            *)
(* ReflectionY, ShearX, ShearY, ShearXDegree, ShearYDegree) the matrix of  *)
(* op.reverse() composed with the matrix of op, in either order, is the    *)
(* identity matrix.                                                        *)
(***************************************************************************)
C16_LeafReverseIsInverse ==
    (outcome.function = "Transformation2D::reverse"
        /\ outcome.arguments[1] \notin DegenerateTransformations) =>
        LET op == outcome.arguments[1]
            reversed == transformation_matrix(outcome.returned)
        IN  /\ MatrixProduct(reversed, transformation_matrix(op)) = IdentityMatrix
            /\ MatrixProduct(transformation_matrix(op), reversed) = IdentityMatrix

C16_Witness ==
    /\ outcome.function = "Transformation2D::reverse"
    /\ outcome.arguments[1] = shear_x(F(2))
    /\ outcome.returned.kind = "Custom"
    /\ outcome.returned.transformation = Matrix3x3(1, -2, 0, 0, 1, 0, 0, 0, 1)

(***************************************************************************)
(* C11: viewport remapping round-trips.  For every geometry g with an      *)
(* extent and all viewports a, b of non-zero width and height, whatever    *)
(* their flip flags, g.transform(a, b).transform(b, a) has the same min    *)
(* corner and max corner as g.                                             *)
(***************************************************************************)
C11_ViewportRoundTrip ==
    \A a \in Viewports, b \in Viewports :
        (/\ HasExtent(initial)
         /\ appended = <<ViewportTransformation(a, b), ViewportTransformation(b, a)>>)
        => /\ minimum_position_in_transformed_bounding_box(geometry)
                = minimum_position_in_transformed_bounding_box(initial)
           /\ maximum_position_in_transformed_bounding_box(geometry)
                = maximum_position_in_transformed_bounding_box(initial)

\* the two circles sent to a viewport flipped in both axes and back
C11_Witness ==
    \E a \in Viewports, b \in Viewports :
        /\ a.flipped_x_axis # b.flipped_x_axis
        /\ a.flipped_y_axis # b.flipped_y_axis
        /\ initial = TwoCircles
        /\ previous = transform(initial, a, b)
        /\ geometry = transform(previous, b, a)
        /\ appended = <<ViewportTransformation(a, b), ViewportTransformation(b, a)>>
        /\ minimum_position_in_transformed_bounding_box(previous) # P(-5, -5)
        /\ minimum_position_in_transformed_bounding_box(geometry) = P(-5, -5)
        /\ maximum_position_in_transformed_bounding_box(geometry) = P(25, 5)

(***************************************************************************)
(* Helpers of the reverse and composition properties.                      *)
(***************************************************************************)
\* the nesting of an op: a leaf, or a Composition of so many nestings
RECURSIVE NestingShape(_)
NestingShape(t) ==
    IF t.kind = "Composition"
    THEN [i \in 1..Len(t.transformations) |-> NestingShape(t.transformations[i])]
    ELSE "op"

NestingShapes(ops) == [i \in 1..Len(ops) |-> NestingShape(ops[i])]

(***************************************************************************)
(* C17: reversing twice is the identity on the matrix.  A pipeline P that  *)
(* is reversed and then reversed again has the matrix of P, the length of  *)
(* P and the nesting shape of P.  (In the step of the second reverse,      *)
(* original still holds P and pipeline' is P.reverse().reverse().)         *)
(***************************************************************************)
C17_ReverseTwiceKeepsMatrix ==
    [][(call.name = "reverse" /\ call'.name = "reverse") =>
            /\ Transformations2D_transformation_matrix(pipeline')
                    = Transformations2D_transformation_matrix(original)
            /\ Len(pipeline') = Len(original)
            /\ NestingShapes(pipeline') = NestingShapes(original)]_vars

\* a rotation about (1, 0) followed by a translation, reversed twice
C17_Witness ==
    LET pushed == <<rotation_around_position(P(1, 0), 2), translation(V(1, 0))>>
    IN  /\ call.name = "reverse"
        /\ original = Transformations2D_reverse(pushed)
        /\ pipeline = Transformations2D_reverse(original)
        /\ pipeline # pushed
        /\ Transformations2D_transformation_matrix(pipeline)
                = Transformations2D_transformation_matrix(pushed)
        /\ Transformations2D_transformation_matrix(original)
                # Transformations2D_transformation_matrix(pushed)

(***************************************************************************)
(* C18: composition is associative but not commutative.  For ops A, B, C   *)
(* the matrices of Composition([A, Composition([B, C])]),                  *)
(* Composition([Composition([A, B]), C]) and Composition([A, B, C]) are    *)
(* equal, and the pipeline [A, B, C] has that matrix too; but for A a      *)
(* non-zero Translation and B a Rotation or a Scale, Composition([A, B])   *)
(* and Composition([B, A]) have different matrices.                        *)
(***************************************************************************)
C18_CompositionAssociativeNotCommutative ==
    /\ Len(pipeline) = 3 =>
        LET A == pipeline[1]
            B == pipeline[2]
            C == pipeline[3]
            flat == transformation_matrix(composition(<<"Flat">>, <<A, B, C>>))
        IN  /\ transformation_matrix(composition(<<"Right">>,
                    <<A, composition(<<"Inner">>, <<B, C>>)>>)) = flat
            /\ transformation_matrix(composition(<<"Left">>,
                    <<composition(<<"Inner">>, <<A, B>>), C>>)) = flat
            /\ Transformations2D_transformation_matrix(pipeline) = flat
    /\ (/\ Len(pipeline) = 2
        /\ pipeline[1] = translation(V(1, 0))
        /\ pipeline[2] \in {rotation(2), scale(F(2), F(2))})
       => transformation_matrix(composition(<<"AB">>, pipeline))
            # transformation_matrix(composition(<<"BA">>, VecReverse(pipeline)))

C18_Witness ==
    /\ pipeline = <<translation(V(1, 0)), rotation(2), scale(F(2), F(2))>>
    /\ Transformations2D_transformation_matrix(pipeline)
            = transformation_matrix(composition(<<"Right">>,
                <<pipeline[1], composition(<<"Inner">>, <<pipeline[2], pipeline[3]>>)>>))
    /\ Transformations2D_transformation_matrix(pipeline)
            # Transformations2D_transformation_matrix(VecReverse(pipeline))

(***************************************************************************)
(* C19: an empty Composition and an empty pipeline                         *)
(* (Transformations2D::default()) both have the identity matrix; a         *)
(* single-op Composition or pipeline has exactly that op's matrix; and a   *)
(* geometry fresh from a constructor has empty pipelines only, so its      *)
(* bounding box is that of its untransformed vertices.                     *)
(***************************************************************************)
C19_EmptyFoldIsIdentity ==
    /\ outcome.function = "Transformation2D::transformation_matrix" =>
        LET t == outcome.arguments[1]
        IN  t.kind = "Composition" =>
                /\ t.transformations = <<>> => outcome.returned = IdentityMatrix
                /\ Len(t.transformations) = 1 =>
                        outcome.returned = transformation_matrix(t.transformations[1])
    /\ outcome.function = "Transformations2D::transformation_matrix" =>
        LET ts == outcome.arguments[1]
        IN  /\ ts = Transformations2D_default => outcome.returned = IdentityMatrix
            /\ Len(ts) = 1 => outcome.returned = transformation_matrix(ts[1])
    /\ outcome.function = "Geometry2D::bounding_box" =>
        LET g == outcome.arguments[1]
            leaves == Leaves(g)
            vertices == UNION {Vertices(leaves[i]) : i \in 1..Len(leaves)}
        IN  /\ \A i \in 1..Len(leaves) :
                    leaves[i].transformations = Transformations2D_default
            /\ vertices # {} =>
                    outcome.returned = <<LeastCorner(vertices), GreatestCorner(vertices)>>

\* the pipeline of the single op shear_x(2)
C19_Witness ==
    /\ outcome.function = "Transformations2D::transformation_matrix"
    /\ outcome.arguments[1] = <<shear_x(F(2))>>
    /\ outcome.returned = Matrix3x3(1, 2, 0, 0, 1, 0, 0, 0, 1)

(***************************************************************************)
(* Helpers of the style properties.                                        *)
(***************************************************************************)
StyleSetters ==
    {"fill_color", "line_or_border_color", "line_or_border_width", "line_shape",
     "corner_shape"}

Filled == {"Triangle", "Square", "Rectangle", "Polygon", "Circle", "Ellipse"}

\* the field of a leaf of that variant the setter is documented to write, if any
TargetedFields(name, kind) ==
    CASE name = "fill_color" ->
            IF kind = "Point" THEN {"color"}
            ELSE IF kind \in Filled THEN {"fill_color"} ELSE {}
      [] name = "line_or_border_color" ->
            IF kind \in {"Line", "Polyline"} THEN {"line_color"}
            ELSE IF kind \in Filled THEN {"border_color"} ELSE {}
      [] name = "line_or_border_width" ->
            IF kind \in {"Line", "Polyline"} THEN {"line_width"}
            ELSE IF kind \in Filled THEN {"border_width"} ELSE {}
      [] name = "line_shape" ->
            IF kind \in {"Line", "Polyline"} THEN {"line_shape"} ELSE {}
      [] name = "corner_shape" ->
            IF kind \in {"Square", "Rectangle"} THEN {"corner_shape"} ELSE {}

\* the value a style call carries
ValueOf(c) ==
    CASE c.name \in {"fill_color", "line_or_border_color"} -> c.color
      [] c.name = "line_or_border_width" -> c.width
      [] c.name \in {"line_shape", "corner_shape"} -> c.shape

FLessEq(a, b) == a = b \/ FLess(a, b)

\* (a + b) / 2
Midpoint(a, b) == FDiv(FAdd(a, b), F(2))

(***************************************************************************)
(* C21: center_position_of_bounding_box is the midpoint of the min and max *)
(* corners and size_of_bounding_box is max minus min per axis; for every   *)
(* geometry that has at least one vertex, after any sequence of builder    *)
(* calls, min.x <= max.x and min.y <= max.y, so that width and height are  *)
(* not negative and the center lies inside the box.                        *)
(***************************************************************************)
C21_CenterAndSizeOfOrderedBox ==
    LET Holds(min_bb_pos, max_bb_pos, center, size) ==
            /\ center = Position2D_with(Midpoint(min_bb_pos.x, max_bb_pos.x),
                                        Midpoint(min_bb_pos.y, max_bb_pos.y))
            /\ FAdd(min_bb_pos.x, size.width) = max_bb_pos.x
            /\ FAdd(min_bb_pos.y, size.height) = max_bb_pos.y
            /\ HasExtent(geometry) =>
                    /\ FLessEq(min_bb_pos.x, max_bb_pos.x)
                    /\ FLessEq(min_bb_pos.y, max_bb_pos.y)
                    /\ FLessEq(F(0), size.width)
                    /\ FLessEq(F(0), size.height)
                    /\ FLessEq(min_bb_pos.x, center.x) /\ FLessEq(center.x, max_bb_pos.x)
                    /\ FLessEq(min_bb_pos.y, center.y) /\ FLessEq(center.y, max_bb_pos.y)
    IN  Holds(minimum_position_in_transformed_bounding_box(geometry),
              maximum_position_in_transformed_bounding_box(geometry),
              center_position_of_bounding_box(geometry),
              size_of_bounding_box(geometry))

\* the two circles, stretched and then turned a quarter about their center
C21_Witness ==
    /\ initial = TwoCircles
    /\ calls = 2
    /\ call.name = "rotate_around_self"
    /\ call.degree = 2
    /\ appended[1] = scale(F(2), F(3))
    /\ size_of_bounding_box(previous) = S(60, 30)
    /\ size_of_bounding_box(geometry) = S(30, 60)
    /\ center_position_of_bounding_box(geometry) = P(20, 0)

(***************************************************************************)
(* The ownership session.  Every leaf owns one Transformations2D, a        *)
(* Vec<Transformation2D>: a buffer on the heap.  heap.storage[a] is the    *)
(* content of the buffer at address a; an owner is a geometry (tree) with  *)
(* the addresses of its leaves' buffers, left to right (cells).  A builder *)
(* call moves the geometry in and out, so the result lives in the buffers  *)
(* the argument lived in; clone() allocates.  The caller builds a geometry *)
(* (kept), clones it (held), makes builder calls on the clone, puts both   *)
(* into one Group and takes a child out of a Group to append to it alone.  *)
(***************************************************************************)
MaxOwnershipCalls == 4

LeafPipelines(g) == [i \in 1..Len(Leaves(g)) |-> Leaves(g)[i].transformations]

\* the tree g with the pipelines ps in its leaves, left to right
RECURSIVE WithPipelines(_, _)
WithPipelines(g, ps) ==
    IF g.kind # "Group" THEN [g EXCEPT !.transformations = ps[1]]
    ELSE group([i \in 1..Len(g.geometries) |->
            LET before == Len(Leaves(group(SubSeq(g.geometries, 1, i - 1))))
                count == Len(Leaves(g.geometries[i]))
            IN  WithPipelines(g.geometries[i], SubSeq(ps, before + 1, before + count))])

\* the Geometry2D value an owner holds: its tree read through its buffers
Resolve(owner, storage) ==
    WithPipelines(owner.tree, [i \in 1..Len(owner.cells) |-> storage[owner.cells[i]]])

\* a value put on the heap: one new buffer for every leaf
Allocate(g, storage) ==
    [owner |-> [tree |-> g,
                cells |-> [i \in 1..Len(Leaves(g)) |-> Len(storage) + i]],
     storage |-> storage \o LeafPipelines(g)]

\* a slip: the copy holds the buffers of the original
Geometry2D_clone_shares_buffers(owner, storage) ==
    [owner |-> owner, storage |-> storage]

\* #[derive(Clone)] of Geometry2D and Transformations2D: Vec::clone copies the
\* content into a new buffer
Geometry2D_clone(owner, storage) == Allocate(Resolve(owner, storage), storage)

\* a builder call that returned result for the value of owner: every leaf of
\* the result lives in the buffer its leaf lived in
MovedThrough(owner, storage, result) ==
    LET written == LeafPipelines(result)
        Last(a) == CHOOSE i \in 1..Len(owner.cells) :
                        /\ owner.cells[i] = a
                        /\ \A j \in 1..Len(owner.cells) : owner.cells[j] = a => j <= i
    IN  [owner |-> [tree |-> result, cells |-> owner.cells],
         storage |-> [a \in 1..Len(storage) |->
                        IF \E i \in 1..Len(owner.cells) : owner.cells[i] = a
                        THEN written[Last(a)]
                        ELSE storage[a]]]

\* the i-th child of an owned Group, taken out of it
ChildOwner(owner, i) ==
    LET before == Len(Leaves(group(SubSeq(owner.tree.geometries, 1, i - 1))))
        count == Len(Leaves(owner.tree.geometries[i]))
    IN  [tree |-> owner.tree.geometries[i],
         cells |-> SubSeq(owner.cells, before + 1, before + count)]

OwnershipGeometries ==
    { LineAlongX,
      rectangle(P(2, 1), S(4, 2)),
      TwoCircles }

OwnershipCalls ==
    { [name |-> "append_transformation", transformation |-> translation(V(1, -2))],
      [name |-> "append_transformation", transformation |-> scale(F(2), F(3))],
      [name |-> "fill_color", color |-> Color_red],
      [name |-> "transform", source |-> Viewport2D_with(P(1, 1), S(4, 2)),
                             target |-> flipped_x_axis(Viewport2D_with(P(0, 3), S(2, 6)), TRUE)] }

InitOwnership ==
    /\ geometry \in OwnershipGeometries
    /\ initial = geometry
    /\ previous = geometry
    /\ appended = <<>>
    /\ call = [name |-> "new"]
    /\ calls = 0
    /\ pipeline = Transformations2D_default
    /\ original = Transformations2D_default
    /\ probe = Position2D_zero
    /\ image = Position2D_zero
    /\ outcome = [function |-> "none"]
    /\ heap = [storage |-> Allocate(geometry, <<>>).storage,
               kept |-> Allocate(geometry, <<>>).owner,
               held |-> NoOwner]
    /\ agent = NoAgent

OwnershipCalled(c) ==
    /\ calls < MaxOwnershipCalls
    /\ calls' = calls + 1
    /\ call' = c
    /\ UNCHANGED <<appended, pipeline, original, probe, image, outcome, agent>>

\* let g2 = g.clone();
CloneGeometry ==
    /\ heap.kept # NoOwner
    /\ heap.held = NoOwner
    /\ OwnershipCalled([name |-> "clone"])
    /\ LET copy == Geometry2D_clone(heap.kept, heap.storage)
       IN  /\ heap' = [storage |-> copy.storage, kept |-> heap.kept, held |-> copy.owner]
           /\ geometry' = Resolve(copy.owner, copy.storage)
    /\ previous' = geometry
    /\ initial' = Resolve(heap.kept, heap.storage)

\* a builder call on the geometry the caller works on: the clone once there is
\* one, the original before
BuilderCall ==
    \E c \in OwnershipCalls :
        LET worked == IF heap.held = NoOwner THEN heap.kept ELSE heap.held
            moved == MovedThrough(worked, heap.storage,
                                  ApplyCall(c, Resolve(worked, heap.storage)))
        IN  /\ OwnershipCalled(c)
            /\ heap' = IF heap.held = NoOwner
                       THEN [storage |-> moved.storage, kept |-> moved.owner, held |-> NoOwner]
                       ELSE [storage |-> moved.storage, kept |-> heap.kept,
                             held |-> moved.owner]
            /\ geometry' = Resolve(moved.owner, moved.storage)
            /\ previous' = geometry
            /\ initial' = initial

\* Geometry2D::group(vec![g, g2])
GroupBoth ==
    /\ heap.kept # NoOwner
    /\ heap.held # NoOwner
    /\ OwnershipCalled([name |-> "group"])
    /\ LET both == [tree |-> group(<<Resolve(heap.kept, heap.storage),
                                     Resolve(heap.held, heap.storage)>>),
                    cells |-> heap.kept.cells \o heap.held.cells]
       IN  /\ heap' = [storage |-> heap.storage, kept |-> NoOwner, held |-> both]
           /\ geometry' = Resolve(both, heap.storage)
    /\ previous' = geometry
    /\ initial' = initial

\* the children of the Group taken out of it, and append_transformation
\* called on the i-th alone; geometry shows all children as they are after
AppendToChild ==
    /\ heap.kept = NoOwner
    /\ heap.held.tree.kind = "Group"
    /\ \E i \in 1..Len(heap.held.tree.geometries) :
       \E t \in {rotation(2)} :
            LET child == ChildOwner(heap.held, i)
                moved == MovedThrough(child, heap.storage,
                            append_transformation(Resolve(child, heap.storage), t))
            IN  /\ OwnershipCalled([name |-> "append_to_child", child |-> i,
                                    transformation |-> t])
                /\ heap' = [heap EXCEPT !.storage = moved.storage]
                /\ geometry' = Resolve(heap.held, moved.storage)
    /\ previous' = geometry
    /\ initial' = initial

NextOwnership ==
    \/ CloneGeometry
    \/ BuilderCall
    \/ GroupBoth
    \/ AppendToChild

SpecOwnership == InitOwnership /\ [][NextOwnership]_vars

(***************************************************************************)
(* C22: no pipeline storage is shared between geometry nodes.  After       *)
(* g2 = g.clone(), whatever builder calls are made on g2, g reads as it    *)
(* did when it was cloned: its fields, its pipelines and its bounding box; *)
(* g and g2 have no buffer in common.  And when append_transformation is   *)
(* called on one child taken out of a Group, the child's leaves get the    *)
(* transformation and every sibling reads as before.                       *)
(***************************************************************************)
C22_NoSharedPipelineStorage ==
    /\ (heap.kept # NoOwner /\ heap.held # NoOwner) =>
        LET g == Resolve(heap.kept, heap.storage)
        IN  /\ g = initial
            /\ LeafPipelines(g) = LeafPipelines(initial)
            /\ minimum_position_in_transformed_bounding_box(g)
                    = minimum_position_in_transformed_bounding_box(initial)
            /\ maximum_position_in_transformed_bounding_box(g)
                    = maximum_position_in_transformed_bounding_box(initial)
            /\ Range(heap.kept.cells) \cap Range(heap.held.cells) = {}
    /\ call.name = "append_to_child" =>
        /\ \A j \in 1..Len(previous.geometries) :
                j # call.child => geometry.geometries[j] = previous.geometries[j]
        /\ LET before == Leaves(previous.geometries[call.child])
               after == Leaves(geometry.geometries[call.child])
           IN  \A k \in 1..Len(before) :
                    after[k].transformations
                        = Append(before[k].transformations, call.transformation)

\* a rectangle moved, cloned, and the clone stretched: the original still
\* holds the one translation
C22_Witness ==
    /\ calls = 3
    /\ call.name = "append_transformation"
    /\ heap.kept # NoOwner
    /\ heap.held # NoOwner
    /\ initial.kind = "Rectangle"
    /\ initial.transformations = <<translation(V(1, -2))>>
    /\ Resolve(heap.kept, heap.storage) = initial
    /\ geometry = Resolve(heap.held, heap.storage)
    /\ geometry.transformations = <<translation(V(1, -2)), scale(F(2), F(3))>>

(***************************************************************************)
(* C23: inverting or reversing a singular transform returns a value and    *)
(* never an error.  inverse_of_matrix_3x3 of a matrix whose computed       *)
(* determinant is zero (the matrix of a Scale with a zero factor, say)     *)
(* returns a 3x3 matrix every entry of which is non-finite, each a         *)
(* cofactor divided by zero; Transformation2D::reverse of a Scale or       *)
(* IsotropicScale with a zero factor returns the Custom op holding that    *)
(* matrix.  Nothing is clamped and no other matrix is substituted.         *)
(***************************************************************************)
C23_SingularInverseIsNonFinite ==
    /\ (outcome.function = "inverse_of_matrix_3x3"
            /\ determinant_of_matrix_3x3(outcome.arguments[1]) = F(0)) =>
        /\ Len(outcome.returned) = 3
        /\ \A i \in 1..3 :
                /\ Len(outcome.returned[i]) = 3
                /\ \A j \in 1..3 : ~IsFinite(outcome.returned[i][j])
    /\ (outcome.function = "Transformation2D::reverse"
            /\ outcome.arguments[1] \in DegenerateTransformations) =>
        /\ determinant_of_matrix_3x3(transformation_matrix(outcome.arguments[1])) = F(0)
        /\ outcome.returned.kind = "Custom"
        /\ \A i \in 1..3, j \in 1..3 : ~IsFinite(outcome.returned.transformation[i][j])
        /\ transformation_matrix(outcome.returned)
                = inverse_of_matrix_3x3(transformation_matrix(outcome.arguments[1]))

\* the reverse of Scale { x: 0, y: 2 }: 2 / 0 and 0 / 0 in its matrix
C23_Witness ==
    /\ outcome.function = "Transformation2D::reverse"
    /\ outcome.arguments[1] = scale(F(0), F(2))
    /\ outcome.returned.kind = "Custom"
    /\ outcome.returned.transformation[1][1] = <<1, 0>>
    /\ outcome.returned.transformation[2][2] = <<0, 0>>
    /\ outcome.returned.transformation[3][3] = <<0, 0>>

(***************************************************************************)
(* Helpers of the placement properties.                                    *)
(***************************************************************************)
\* the bounding box of `after` is the bounding box of `before` moved by `distance`
Displaced(before, after, distance) ==
    /\ minimum_position_in_transformed_bounding_box(after)
            = Position2D_add(minimum_position_in_transformed_bounding_box(before), distance)
    /\ maximum_position_in_transformed_bounding_box(after)
            = Position2D_add(maximum_position_in_transformed_bounding_box(before), distance)

\* every leaf pipeline of `after` is that of `before` with `transformation` at its end
AppendedToEveryLeaf(before, after, transformation) ==
    /\ Shape(after) = Shape(before)
    /\ \A k \in 1..Len(Leaves(before)) :
            Leaves(after)[k]
                = [Leaves(before)[k] EXCEPT
                      !.transformations = Append(@, transformation)]

(***************************************************************************)
(* C24: move_to(target) on a geometry with an extent appends to every leaf *)
(* exactly one Translation by target - c, c the center of the bounding box *)
(* before the call, whatever the pipelines already hold; afterwards        *)
(* center_position_of_bounding_box is target, size_of_bounding_box is what *)
(* it was, and every child of a Group is displaced by that same vector.    *)
(* move_to on a Group with no children returns it unchanged.               *)
(***************************************************************************)
C24_MoveToCentersOnTarget ==
    call.name = "move_to" =>
        LET c == center_position_of_bounding_box(previous)
            distance == vector_to(c, call.center_position)
        IN  /\ HasExtent(previous) =>
                /\ AppendedToEveryLeaf(previous, geometry, translation(distance))
                /\ center_position_of_bounding_box(geometry) = call.center_position
                /\ size_of_bounding_box(geometry) = size_of_bounding_box(previous)
                /\ Displaced(previous, geometry, distance)
                /\ previous.kind = "Group" =>
                        \A i \in 1..Len(previous.geometries) :
                            HasExtent(previous.geometries[i]) =>
                                Displaced(previous.geometries[i], geometry.geometries[i],
                                          distance)
            /\ previous = group(<<>>) => geometry = previous

\* the stretched pair of circles, its center at (20, 0), moved to (5, -2)
C24_Witness ==
    /\ calls = 2
    /\ call = [name |-> "move_to", center_position |-> P(5, -2)]
    /\ initial = TwoCircles
    /\ appended = <<scale(F(2), F(3)), translation(V(-15, -2))>>
    /\ center_position_of_bounding_box(previous) = P(20, 0)
    /\ center_position_of_bounding_box(geometry) = P(5, -2)
    /\ size_of_bounding_box(geometry) = S(60, 30)
    /\ \A i \in 1..2 :
            geometry.geometries[i].transformations
                = <<scale(F(2), F(3)), translation(V(-15, -2))>>

(***************************************************************************)
(* C25: scale_position(f) moves and never resizes.  On a geometry whose    *)
(* bounding box has center c the result has its center at (f * c.x,        *)
(* f * c.y) and the size_of_bounding_box it had; every leaf pipeline gains *)
(* exactly one op, a Translation, and no Scale; scale_position(1) leaves   *)
(* the bounding box where it was.                                          *)
(***************************************************************************)
C25_ScalePositionMovesOnly ==
    (call.name = "scale_position" /\ HasExtent(previous)) =>
        LET c == center_position_of_bounding_box(previous)
            target == Position2D_with(FMul(call.scale_factor, c.x),
                                      FMul(call.scale_factor, c.y))
        IN  /\ AppendedToEveryLeaf(previous, geometry, translation(vector_to(c, target)))
            /\ \A k \in 1..Len(Leaves(geometry)) :
                    LET ops == Leaves(geometry)[k].transformations
                    IN  /\ Len(ops) = Len(Leaves(previous)[k].transformations) + 1
                        /\ ops[Len(ops)].kind = "Translation"
            /\ center_position_of_bounding_box(geometry) = target
            /\ size_of_bounding_box(geometry) = size_of_bounding_box(previous)
            /\ call.scale_factor = F(1) => Displaced(previous, geometry, V(0, 0))

\* the rectangle about (2, 1), moved to (5, -2) and then to minus a half of that
C25_Witness ==
    /\ calls = 2
    /\ call = [name |-> "scale_position", scale_factor |-> Rat(-1, 2)]
    /\ initial = rectangle(P(2, 1), S(4, 2))
    /\ appended = <<translation(V(3, -3)),
                    translation(Vector2D_with(Rat(-15, 2), F(3)))>>
    /\ geometry.transformations = appended
    /\ center_position_of_bounding_box(previous) = P(5, -2)
    /\ center_position_of_bounding_box(geometry) = Position2D_with(Rat(-5, 2), F(1))
    /\ size_of_bounding_box(geometry) = S(4, 2)

(***************************************************************************)
(* C26: rotate_around(p, angle) appends to every leaf one Composition      *)
(* [Translation(-p), Rotation(angle), Translation(+p)], in that order, and *)
(* p is a fixed point of the appended transform.  rotate_around_origin     *)
(* is rotate_around((0, 0), angle).  rotate_around_self rotates around the *)
(* center of the bounding box of the whole geometry (every leaf of a Group *)
(* around the center of the Group, not around its own), so that a          *)
(* rotation by quarter turns leaves the center of the bounding box where   *)
(* it was.                                                                 *)
(***************************************************************************)
C26_RotateAroundFixesItsPosition ==
    LET AppendedAround(p, angle) ==
            LET op == composition(<<"RotationAroundPosition">>,
                          << translation(Vector2D_with(FNeg(p.x), FNeg(p.y))),
                             rotation(angle),
                             translation(Vector2D_with(p.x, p.y)) >>)
            IN  /\ AppendedToEveryLeaf(previous, geometry, op)
                /\ Position2D_transform(p, <<op>>) = p
                /\ multiply_vector_1x3_and_matrix_3x3(<<p.x, p.y, F(1)>>,
                        transformation_matrix(op)) = <<p.x, p.y, F(1)>>
    IN  /\ call.name = "rotate_around" =>
            AppendedAround(call.rotate_position, call.degree)
        /\ call.name = "rotate_around_origin" =>
            /\ AppendedAround(Position2D_zero, call.degree)
            /\ geometry = rotate_around(previous, Position2D_zero, call.degree)
        /\ call.name = "rotate_around_self" =>
            /\ HasExtent(previous) =>
                /\ AppendedAround(center_position_of_bounding_box(previous), call.degree)
                /\ call.degree \in {0, 2, 4, 6} =>
                        center_position_of_bounding_box(geometry)
                            = center_position_of_bounding_box(previous)
            /\ \A j \in 1..Len(Leaves(geometry)), k \in 1..Len(Leaves(geometry)) :
                    LET ops(i) == Leaves(geometry)[i].transformations
                    IN  ops(j)[Len(ops(j))] = ops(k)[Len(ops(k))]

\* the pair of circles moved to (5, -2) and turned by a quarter around it: both
\* circles turn around (5, -2), neither around its own center
C26_Witness ==
    /\ calls = 2
    /\ call = [name |-> "rotate_around_self", degree |-> 2]
    /\ initial = TwoCircles
    /\ appended = <<translation(V(-5, -2)), rotation_around_position(P(5, -2), 2)>>
    /\ \A i \in 1..2 : geometry.geometries[i].transformations = appended
    /\ appended[2].transformations[1] = translation(V(-5, 2))
    /\ appended[2].transformations[3] = translation(V(5, -2))
    /\ center_position_of_bounding_box(geometry) = P(5, -2)
    /\ size_of_bounding_box(previous) = S(30, 10)
    /\ size_of_bounding_box(geometry) = S(10, 30)

(***************************************************************************)
(* Helpers of the affine invariant.                                        *)
(***************************************************************************)
LastRowIsAffine(m) == m[3] = <<F(0), F(0), F(1)>>

\* the matrix of an op has the last row [0, 0, 1]: of itself where the op is
\* neither a Composition nor a Custom; where the matrices of its children have it
\* for a Composition; and for a Custom that reverse made, where the matrix of the
\* op it was made from has it and is invertible
RECURSIVE OpIsAffine(_)
OpIsAffine(t) ==
    IF t.kind = "Custom"
    THEN LET from == transformation_matrix(t.name[2])
         IN  /\ t.name[1] = "Reverse-"
             /\ t.transformation = inverse_of_matrix_3x3(from)
             /\ (LastRowIsAffine(from) /\ determinant_of_matrix_3x3(from) # F(0))
                    => LastRowIsAffine(transformation_matrix(t))
             /\ LastRowIsAffine(transformation_matrix(t))
    ELSE IF t.kind = "Composition"
    THEN /\ \A i \in 1..Len(t.transformations) : OpIsAffine(t.transformations[i])
         /\ LastRowIsAffine(transformation_matrix(t))
    ELSE LastRowIsAffine(transformation_matrix(t))

C28_SourceRectangleOntoTarget ==
    call.name = "transform" =>
        /\ Position2D_transform(call.source.center,
                <<ViewportTransformation(call.source, call.target)>>) = call.target.center
        /\ (previous = rectangle(call.source.center, call.source.size)) =>
                /\ geometry.transformations
                        = <<ViewportTransformation(call.source, call.target)>>
                /\ center_position_of_bounding_box(geometry) = call.target.center
                /\ size_of_bounding_box(geometry) = call.target.size

\* the rectangle of a viewport flipped in x, sent to the viewport flipped in y
C28_Witness ==
    /\ calls = 1
    /\ call.name = "transform"
    /\ call.source = flipped_x_axis(Viewport2D_with(P(0, 3), S(2, 6)), TRUE)
    /\ call.target = flipped_y_axis(Viewport2D_with(P(-2, 0), S(1, 3)), TRUE)
    /\ initial = rectangle(P(0, 3), S(2, 6))
    /\ previous = initial
    /\ Len(geometry.transformations[1].transformations) = 5
    /\ center_position_of_bounding_box(geometry) = P(-2, 0)
    /\ size_of_bounding_box(geometry) = S(1, 3)

(***************************************************************************)
(* The agent session.  The caller builds an InputAgent on an input         *)
(* provider and an action mapper and drives it as an Agent, while inputs   *)
(* arrive in the provider's buffer.  The provider is any implementation of *)
(* the InputProvider trait that keeps the inputs in the order of their     *)
(* arrival: clear() empties the buffer, pop_all() empties it and returns   *)
(* what it held.  `invoked` is the log of the methods called on it,        *)
(* `received` the log of the batches handed to the mapper; every input     *)
(* carries the number of its arrival.                                      *)
(***************************************************************************)
MaxAgentCalls == 3
MaxInputs == 3

\* InputProvider::clear
InputProvider_clear(self) ==
    [self EXCEPT !.buffer = <<>>, !.invoked = Append(@, "clear")]

\* InputProvider::pop_all
InputProvider_pop_all(self) ==
    [self |-> [self EXCEPT !.buffer = <<>>, !.invoked = Append(@, "pop_all")],
     returned |-> self.buffer]

\* ToActionMapper::map, of another crate: it fails or maps the inputs to an action
ToActionMapper_map(self, inputs, fails) ==
    [self |-> [self EXCEPT !.received = Append(@, inputs)],
     returned |-> IF fails THEN [Err |-> "TAMError"]
                  ELSE [Ok |-> [action_of |-> inputs]]]

\* impl From<TAMError> for InputAgentError
InputAgentError_from(error) == [ToActionMapperError |-> error]

reseed(self) == [self |-> self, returned |-> [Ok |-> <<>>]]

reset(self) ==
    [self |-> [self EXCEPT !.input_provider = InputProvider_clear(@)],
     returned |-> [Ok |-> <<>>]]

\* a slip: the drained inputs go back into the buffer when the mapper fails
choose_action_restores_on_error(self, fails) ==
    LET popped == InputProvider_pop_all(self.input_provider)
        mapped == ToActionMapper_map(self.to_action_mapper, popped.returned, fails)
    IN  [self |-> [input_provider |->
                       IF fails THEN [popped.self EXCEPT !.buffer = popped.returned]
                       ELSE popped.self,
                   to_action_mapper |-> mapped.self],
         returned |-> IF "Err" \in DOMAIN mapped.returned
                      THEN [Err |-> InputAgentError_from(mapped.returned.Err)]
                      ELSE mapped.returned]

\* self.to_action_mapper.map(&self.input_provider.pop_all()).map_err(|e| e.into())
choose_action(self, fails) ==
    LET popped == InputProvider_pop_all(self.input_provider)
        mapped == ToActionMapper_map(self.to_action_mapper, popped.returned, fails)
    IN  [self |-> [input_provider |-> popped.self, to_action_mapper |-> mapped.self],
         returned |-> IF "Err" \in DOMAIN mapped.returned
                      THEN [Err |-> InputAgentError_from(mapped.returned.Err)]
                      ELSE mapped.returned]

process_reward(self) == [self |-> self, returned |-> [Ok |-> <<>>]]

close(self) == [self |-> self, returned |-> [Ok |-> <<>>]]

Inputs == { [kind |-> "Focus", value |-> TRUE], [kind |-> "Cursor", value |-> FALSE] }

InitAgent ==
    /\ agent = NoAgent
    /\ outcome = [function |-> "none"]
    /\ heap = EmptyHeap
    /\ pipeline = Transformations2D_default
    /\ original = Transformations2D_default
    /\ probe = Position2D_zero
    /\ image = Position2D_zero
    /\ call = [name |-> "new"]
    /\ calls = 0
    /\ geometry = group(<<>>)
    /\ initial = geometry
    /\ previous = geometry
    /\ appended = <<>>

AgentUnchanged ==
    UNCHANGED <<geometry, initial, appended, call, previous, pipeline, original, probe,
                image, heap>>

\* the window hands an input to the provider
InputArrives ==
    \E input \in Inputs :
        /\ agent.input_provider.arrived < MaxInputs
        /\ agent' = [agent EXCEPT
                        !.input_provider.arrived = @ + 1,
                        !.input_provider.buffer =
                            Append(@, [arrival |-> agent.input_provider.arrived + 1,
                                       input |-> input])]
        /\ UNCHANGED <<outcome, calls>>
        /\ AgentUnchanged

\* a method of the Agent trait called on the agent: what it did and returned
AgentCalled(function, result) ==
    /\ calls < MaxAgentCalls
    /\ calls' = calls + 1
    /\ agent' = result.self
    /\ outcome' = [function |-> function, arguments |-> <<agent>>,
                   returned |-> result.returned]
    /\ AgentUnchanged

Reseed == AgentCalled("InputAgent::reseed", reseed(agent))

Reset == AgentCalled("InputAgent::reset", reset(agent))

ChooseAction ==
    \E fails \in BOOLEAN :
        AgentCalled("InputAgent::choose_action", choose_action(agent, fails))

ProcessReward == AgentCalled("InputAgent::process_reward", process_reward(agent))

Close == AgentCalled("InputAgent::close", close(agent))

NextAgent ==
    \/ InputArrives
    \/ Reseed
    \/ Reset
    \/ ChooseAction
    \/ ProcessReward
    \/ Close

SpecAgent == InitAgent /\ [][NextAgent]_vars

\* the sequences of a sequence one after the other
RECURSIVE Flattened(_)
Flattened(batches) ==
    IF batches = <<>> THEN <<>> ELSE Head(batches) \o Flattened(Tail(batches))

C30_PixelArrayIndexing ==
    outcome.function \in {"PixelArray::index", "PixelArray::index_mut"} =>
        LET self == outcome.arguments[1]
            x == outcome.arguments[2][1]
            y == outcome.arguments[2][2]
            panicked == "Panic" \in DOMAIN outcome.returned
        IN  /\ (x >= self.width \/ y >= self.height) => panicked
            /\ (~panicked /\ outcome.function = "PixelArray::index") =>
                    outcome.returned.Ok = self.data[y * self.width + x + 1]
            /\ (~panicked /\ outcome.function = "PixelArray::index_mut") =>
                    /\ outcome.returned.Ok.data[y * self.width + x + 1]
                            = outcome.arguments[3]
                    /\ \A k \in 1..Len(self.data) :
                            k # y * self.width + x + 1 =>
                                outcome.returned.Ok.data[k] = self.data[k]
            /\ (/\ self = PixelArray_with(self.width, self.height)
                /\ self.width > 0
                /\ self.height > 0
                /\ x < self.width
                /\ y < self.height) => ~panicked

====
